---- MODULE Spec2Model ----
(***************************************************************************)
(* Verification model of cpython-ext-ctrl-c:                               *)
(*   - CheckSignalsOftenEnough.c and its fuzz twin tdal.c (timespec        *)
(*     comparison),                                                        *)
(*   - ctrlc/kissfft_subset.c (kf_factor, kiss_fft_alloc, kf_work),        *)
(*   - ctrlc/interruptible.c (the stop callbacks, maybe_interruptible),    *)
(*   - ctrlc/signaler.c (OneShotEvent, the signal thread, __init__,        *)
(*     __enter__, __exit__ and deallocation of PeriodicSignalContext).     *)
(* Each subsystem has its own specification over its own variables; the    *)
(* variables of the other subsystems are held at their initial values.     *)
(***************************************************************************)
EXTENDS Integers, Sequences, FiniteSets, TLC

VARIABLES
    \* CheckSignalsOftenEnough: the static last_check, and the reading, the
    \* value of last_check before, the result and the host query of the
    \* latest call
    last_check, cso_now, cso_prev, cso_rv, cso_asked,
    \* CheckSignalsOftenEnough called from several threads: each caller's
    \* position and locals, the coarse clock, and the call whose reading each
    \* field of last_check was copied from
    cso_thr, cso_clock, lc_src,
    \* OSE_wait's deadline computed on its own: the clock reading, the delay,
    \* the deadline and whether it has been computed
    d_now, d_delay, d_res, d_done,
    \* ---- timespec comparison (tdal.c, CheckSignalsOftenEnough.c)
    t_after, t_before, t_min,   \* the arguments of one comparison
    r_mul, r_cases, r_tsdal,    \* the three functions' return values, -1: not called
    \* ---- kf_factor / kiss_fft_alloc called on their own
    f_n,                        \* the uint32_t sample count
    f_malloc,                   \* whether malloc succeeds in this call
    f_res,                      \* kiss_fft_alloc's result, "none" before the call
    \* ---- one call of an interruptible.c entry point (maybe_interruptible)
    policy,         \* which check function: "never", "simple", "timed", "coarse"
    release_gil,    \* should_stop->release_gil
    len_in, len_out,\* the two buffers' lengths, in samples
    malloc_ok,      \* whether malloc succeeds inside kiss_fft_alloc
    should_stop,    \* kiss_fft's should_stop argument: "set" or "NULL"
    mpc,            \* position in maybe_interruptible
    clock,          \* CLOCK_MONOTONIC, in (scaled) nanoseconds
    coarse,         \* CLOCK_MONOTONIC_COARSE: the clock as of the last timer tick
    pending,        \* the host has a signal pending (PyErr_CheckSignals would fail)
    gil,            \* the calling thread holds the GIL
    blocked,        \* SIGINT is blocked in the calling thread's signal mask
    prev,           \* the mask saved by sigprocmask(SIG_UNBLOCK, ..., &prev)
    start_ns, stop_ns,
    check_count, ns_last_check, ns_between_checks,   \* periodic_signal_check
    factors,        \* st->factors: the entries kf_factor wrote
    stack,          \* the active kf_work invocations, innermost last
    fft_rv,         \* kiss_fft's return value once it has returned
    interrupted,    \* maybe_interruptible's local
    result,         \* what maybe_interruptible produced
    out_written,    \* the output buffer has been written to
    corrupt,        \* an out-of-bounds access has gone through silently
    \* ---- history variables of the transform call
    hq,             \* the last two host queries: [n: which one, at: clock
                    \* reading, by: who asked, gil: the GIL was held]
    nq,             \* how many host queries were made
    ninv,           \* how many times the should_stop callback was invoked
    sigs,           \* a signal has been pending at some point of the call
    abort_v,        \* the first nonzero value a check inside kf_work returned
    work_after_abort, \* kf_work did anything but return after that check
    since_check,    \* combines and leaf copies since the last check point
    \* ---- one PeriodicSignalContext object (signaler.c) and its signal threads
    interval,       \* self->interval, a struct timespec
    entry_count,    \* self->entry_count
    signal_thread,  \* self->signal_thread: the handle pthread_create stored
    signaled,       \* self->stop.signaled
    mutex,          \* self->stop.mutex: who holds it
    thr,            \* the threads running periodic_signal_threadproc
    opc,            \* where the thread calling __enter__/__exit__ is
    now_rt,         \* CLOCK_REALTIME, in (scaled) nanoseconds
    \* ---- history variables of the context
    last_call,      \* the last call that returned and what it did
    reaped,         \* the __exit__ in progress has joined a signal thread
    req_pc,         \* where the signal thread was when stop was requested
    sent,           \* a signal has been sent since the last thread creation
    late_kill,      \* a signal was sent while the context was idle at depth 0
    ep,             \* the run of __enter__ calls, then __exit__ calls, since idle
    \* ---- the rest of the object
    caller,         \* who called stop_signal_thread: "exit", "dealloc" or "none"
    join_err,       \* pthread_join failed in the stop_signal_thread in progress
    signal,         \* self->signal
    last_init       \* the last call of __init__: arguments, state before, result

raceVars == <<cso_thr, cso_clock, lc_src>>
csoVars == <<last_check, cso_now, cso_prev, cso_rv, cso_asked, raceVars>>
dlVars == <<d_now, d_delay, d_res, d_done>>
timeVars == <<t_after, t_before, t_min, r_mul, r_cases, r_tsdal, csoVars, dlVars>>
facVars  == <<f_n, f_malloc, f_res>>
cfgVars  == <<policy, release_gil, len_in, len_out, malloc_ok, ns_between_checks,
              should_stop>>
hostVars == <<clock, coarse, pending, sigs>>
chkVars  == <<check_count, ns_last_check, hq, nq, ninv>>
runVars  == <<mpc, gil, blocked, prev, start_ns, stop_ns, factors, stack, fft_rv,
              interrupted, result, out_written, corrupt, abort_v,
              work_after_abort, since_check>>
fftVars  == <<cfgVars, hostVars, chkVars, runVars>>
objVars  == <<caller, join_err, signal, last_init>>
pscVars  == <<interval, entry_count, signal_thread, signaled, mutex, thr, opc,
              now_rt, last_call, reaped, req_pc, sent, late_kill, ep, objVars>>
vars == <<timeVars, facVars, fftVars, pscVars>>

(***************************************************************************)
(* Scaled machine parameters.  The C code works on 64-bit integers and a   *)
(* second of 10^9 nanoseconds; the model keeps the same arithmetic on a    *)
(* small second and a small signed word so that every input is enumerated. *)
(***************************************************************************)
\* nanoseconds per second (10^9 in the source), scaled
ONE_S_IN_NS == 4
\* the interval between host queries of CheckSignalsOftenEnough (10^6 in the
\* source), scaled; below one second as timespec_difference_at_least requires
ONE_MS_IN_NS == 2
\* largest value of the signed 64-bit types time_t and int_least64_t, scaled
Int64Max == 7

Int64Min == -Int64Max - 1
InInt64(x) == x >= Int64Min /\ x <= Int64Max

TimeT == Int64Min .. Int64Max
NsecField == 0 .. (ONE_S_IN_NS - 1)
Timespec == [tv_sec : TimeT, tv_nsec : NsecField]

\* the C truth values
CBool(b) == IF b THEN 1 ELSE 0
\* a signed overflow is undefined behaviour: the call may return either value
Undefined == {0, 1}

(***************************************************************************)
(* tdal.c: the two implementations, each as the set of values the call     *)
(* can return (a singleton wherever the C arithmetic is defined).          *)
(***************************************************************************)
\* tv_sec * ONE_S_IN_NS + tv_nsec is computed in int_least64_t without overflow
NsDefined(ts) ==
    /\ InInt64(ts.tv_sec * ONE_S_IN_NS)
    /\ InInt64(ts.tv_sec * ONE_S_IN_NS + ts.tv_nsec)

TotalNs(ts) == ts.tv_sec * ONE_S_IN_NS + ts.tv_nsec

MulDefined(after, before) ==
    /\ NsDefined(before)
    /\ NsDefined(after)
    /\ InInt64(TotalNs(after) - TotalNs(before))

\* mutant: the straightforward version without the "clock went backward" test
Mul_NoNegative(after, before, min_ns) ==
    IF ~MulDefined(after, before) THEN Undefined
    ELSE LET delta_ns == TotalNs(after) - TotalNs(before)
         IN  {CBool(delta_ns >= min_ns)}

c_timespec_difference_at_least_mul(after, before, min_ns) ==
    IF ~MulDefined(after, before) THEN Undefined
    ELSE LET before_ns == before.tv_sec * ONE_S_IN_NS + before.tv_nsec
             after_ns  == after.tv_sec * ONE_S_IN_NS + after.tv_nsec
             delta_ns  == after_ns - before_ns
         IN  {CBool(delta_ns < 0 \/ delta_ns >= min_ns)}

\* mutant: the consecutive-seconds case forgets to add one second
Cases_NoCarry(after, before, min_ns) ==
    IF after.tv_sec = before.tv_sec
    THEN {CBool(after.tv_nsec - before.tv_nsec >= min_ns
                \/ after.tv_nsec < before.tv_nsec)}
    ELSE IF ~InInt64(before.tv_sec + 1)
    THEN Undefined
    ELSE IF after.tv_sec = before.tv_sec + 1
    THEN {CBool(after.tv_nsec - before.tv_nsec >= min_ns)}
    ELSE {1}

c_timespec_difference_at_least_cases(after, before, min_ns) ==
    IF after.tv_sec = before.tv_sec
    THEN {CBool(after.tv_nsec - before.tv_nsec >= min_ns
                \/ after.tv_nsec < before.tv_nsec)}
    ELSE IF ~InInt64(before.tv_sec + 1)
    THEN Undefined       \* before->tv_sec + 1 overflows time_t
    ELSE IF after.tv_sec = before.tv_sec + 1
    THEN {CBool((ONE_S_IN_NS + after.tv_nsec) - before.tv_nsec >= min_ns)}
    ELSE {1}

\* CheckSignalsOftenEnough.c, built without SIMPLE_TIMESPEC_DIFFERENCE: the
\* same three cases as tdal.c's c_timespec_difference_at_least_cases
timespec_difference_at_least(after, before, min_ns) ==
    IF after.tv_sec = before.tv_sec
    THEN {CBool(after.tv_nsec - before.tv_nsec >= min_ns
                \/ after.tv_nsec < before.tv_nsec)}
    ELSE IF ~InInt64(before.tv_sec + 1)
    THEN Undefined       \* before->tv_sec + 1 overflows time_t
    ELSE IF after.tv_sec = before.tv_sec + 1
    THEN {CBool((ONE_S_IN_NS + after.tv_nsec) - before.tv_nsec >= min_ns)}
    ELSE {1}

\* the threads that call CheckSignalsOftenEnough
Callers == {1, 2}
\* now: the coarse clock value the call read (-1: none yet); seen_sec: the
\* last_check.tv_sec it read; asked: the reading of the caller's latest call
\* that asked the host (-1: none)
IdleCaller == [pc |-> "idle", now |-> -1, seen_sec |-> 0, asked |-> -1]

\* static struct timespec last_check = { 0, 0 }, and no call made yet
IdleCso ==
    /\ cso_thr = [t \in Callers |-> IdleCaller]
    /\ cso_clock = 0
    /\ lc_src = [sec |-> -1, nsec |-> -1]
    /\ last_check = [tv_sec |-> 0, tv_nsec |-> 0]
    /\ cso_now = [tv_sec |-> 0, tv_nsec |-> 0]
    /\ cso_prev = [tv_sec |-> 0, tv_nsec |-> 0]
    /\ cso_rv = 1
    /\ cso_asked = FALSE

IdleDeadline ==
    /\ d_now = [tv_sec |-> 0, tv_nsec |-> 0]
    /\ d_delay = [tv_sec |-> 0, tv_nsec |-> 1]
    /\ d_res = [tv_sec |-> 0, tv_nsec |-> 0]
    /\ d_done = FALSE

InitTime ==
    /\ IdleCso
    /\ IdleDeadline
    /\ t_after \in Timespec
    /\ t_before \in Timespec
    /\ t_min \in NsecField
    /\ r_mul = -1
    /\ r_cases = -1
    /\ r_tsdal = -1

IdleTime ==
    /\ IdleCso
    /\ IdleDeadline
    /\ t_after = [tv_sec |-> 0, tv_nsec |-> 0]
    /\ t_before = [tv_sec |-> 0, tv_nsec |-> 0]
    /\ t_min = 0
    /\ r_mul = -1
    /\ r_cases = -1
    /\ r_tsdal = -1

CallMul ==
    /\ r_mul = -1
    /\ \E r \in c_timespec_difference_at_least_mul(t_after, t_before, t_min) :
          r_mul' = r
    /\ UNCHANGED <<t_after, t_before, t_min, r_cases, r_tsdal, csoVars, dlVars, facVars, fftVars, pscVars>>

CallCases ==
    /\ r_cases = -1
    /\ \E r \in c_timespec_difference_at_least_cases(t_after, t_before, t_min) :
          r_cases' = r
    /\ UNCHANGED <<t_after, t_before, t_min, r_mul, r_tsdal, csoVars, dlVars, facVars, fftVars, pscVars>>

CallTimespecDifferenceAtLeast ==
    /\ r_tsdal = -1
    /\ \E r \in timespec_difference_at_least(t_after, t_before, t_min) :
          r_tsdal' = r
    /\ UNCHANGED <<t_after, t_before, t_min, r_mul, r_cases, csoVars, dlVars, facVars, fftVars, pscVars>>

(***************************************************************************)
(* kissfft_subset.c: kf_factor and kiss_fft_alloc.                         *)
(***************************************************************************)
\* entries of the factor buffer (16 in the source, for 2^31 samples), scaled;
\* uint32_t is scaled with it to 2 * MAXFACTORS bits
MAXFACTORS == 3

RECURSIVE Pow2(_)
Pow2(k) == IF k = 0 THEN 1 ELSE 2 * Pow2(k - 1)

\* UINT32_C(1) << 31: the top bit of the (scaled) uint32_t
KISS_FFT_MAX_SAMPLES == Pow2(2 * MAXFACTORS - 1)
Uint32Max == Pow2(2 * MAXFACTORS) - 1

\* the second loop of kf_factor: the remaining powers of 2
RECURSIVE kf_factor2(_, _, _)
kf_factor2(n, i, facbuf) ==
    IF n % 2 = 0
    THEN IF i >= MAXFACTORS
         THEN [ok |-> FALSE, facbuf |-> facbuf]
         ELSE kf_factor2(n \div 2, i + 1,
                         Append(facbuf, [radix |-> 2, stride |-> n \div 2]))
    ELSE [ok |-> (n = 1), facbuf |-> facbuf]

\* the first loop of kf_factor: all powers of 4
RECURSIVE kf_factor4(_, _, _)
kf_factor4(n, i, facbuf) ==
    IF n % 4 = 0
    THEN IF i >= MAXFACTORS
         THEN [ok |-> FALSE, facbuf |-> facbuf]
         ELSE kf_factor4(n \div 4, i + 1,
                         Append(facbuf, [radix |-> 4, stride |-> n \div 4]))
    ELSE kf_factor2(n, i, facbuf)

\* mutant: the power-of-4 loop stops after its first factor
kf_factor_OneFour(n) ==
    IF n % 4 = 0
    THEN kf_factor2(n \div 4, 1, <<[radix |-> 4, stride |-> n \div 4]>>)
    ELSE kf_factor2(n, 0, <<>>)

\* [ok: the return value, facbuf: the entries written, in order]
kf_factor(n) == kf_factor4(n, 0, <<>>)

\* the number of kf_work calls on the way down from the first factor to the
\* call that takes the m == 1 branch; 0 if the entries end before that
RECURSIVE LeafLevel(_)
LeafLevel(facbuf) ==
    IF facbuf = <<>> THEN 0
    ELSE IF Head(facbuf).stride = 1 THEN 1
    ELSE IF LeafLevel(Tail(facbuf)) = 0 THEN 0
    ELSE 1 + LeafLevel(Tail(facbuf))

\* mutant: a failed factorisation is not reported
kiss_fft_alloc_NoCheck(samples, mem_ok) ==
    IF ~mem_ok THEN [st |-> "null", factors |-> <<>>]
    ELSE [st |-> "state", factors |-> kf_factor(samples).facbuf]

\* st: "null" (malloc failed), "minus1" (not a power of two) or "state"
kiss_fft_alloc(samples, mem_ok) ==
    IF ~mem_ok THEN [st |-> "null", factors |-> <<>>]
    ELSE IF ~kf_factor(samples).ok THEN [st |-> "minus1", factors |-> <<>>]
    ELSE [st |-> "state", factors |-> kf_factor(samples).facbuf]

NoAlloc == [st |-> "none", factors |-> <<>>]

InitFactor ==
    /\ f_n \in 1 .. Uint32Max
    /\ f_malloc \in BOOLEAN
    /\ f_res = NoAlloc

IdleFactor ==
    /\ f_n = 1
    /\ f_malloc = TRUE
    /\ f_res = NoAlloc

CallAlloc ==
    /\ f_res = NoAlloc
    /\ f_res' = kiss_fft_alloc(f_n, f_malloc)
    /\ UNCHANGED <<f_n, f_malloc, timeVars, fftVars, pscVars>>

(***************************************************************************)
(* interruptible.c: the stop callbacks.  self is the periodic_signal_check *)
(* record; each callback yields its return value, the updated record, the  *)
(* host's pending flag and whether PyErr_CheckSignals was called.          *)
(***************************************************************************)
\* clock readings of one call run from 0 to MaxClock
MaxClock == 3
\* the largest ns_between_checks tried
MaxInterval == 2
\* width of the unsigned 64-bit type nanosec, scaled
NanosecBits == 4
NanosecMod == Pow2(NanosecBits)

Policies == {"never", "simple", "timed", "coarse"}

Self == [ns_last_check |-> ns_last_check,
         ns_between_checks |-> ns_between_checks,
         check_count |-> check_count,
         release_gil |-> release_gil]

\* -1 with the exception set when a signal is pending (the handler has run and
\* the pending flag is consumed), 0 otherwise
PyErr_CheckSignals(pend) == [rv |-> IF pend THEN -1 ELSE 0, pending |-> FALSE]

\* mutant: the Never policy asks the host like the Always policy
uninterruptible_check_Asks(self, pend) ==
    [rv |-> PyErr_CheckSignals(pend).rv,
     self |-> [self EXCEPT !.check_count = @ + 1],
     pending |-> PyErr_CheckSignals(pend).pending,
     queried |-> TRUE]

\* mutant: the Never policy counts its invocations
uninterruptible_check_Counts(self, pend) ==
    [rv |-> 0,
     self |-> [self EXCEPT !.check_count = @ + 1],
     pending |-> pend,
     queried |-> FALSE]

\* returns 0 and touches neither the record nor the host
uninterruptible_check(self, pend) ==
    [rv |-> 0, self |-> self, pending |-> pend, queried |-> FALSE]

\* mutant: the host's answer is dropped
simple_check_Deaf(self, pend) ==
    [rv |-> 0,
     self |-> [self EXCEPT !.check_count = @ + 1],
     pending |-> PyErr_CheckSignals(pend).pending,
     queried |-> TRUE]

\* PyGILState_Ensure/Release around the query when release_gil is set: the
\* query runs with the GIL held and the caller's GIL state is as before.
\* check_count is a 64-bit counter; no call makes 2^64 checks, so it is not
\* reduced modulo the scaled word.
simple_interruptible_check(self, pend) ==
    [rv |-> PyErr_CheckSignals(pend).rv,
     self |-> [self EXCEPT !.check_count = @ + 1],
     pending |-> PyErr_CheckSignals(pend).pending,
     queried |-> TRUE]

\* mutant: the interval test is gone, every call asks the host
timed_check_NoRateLimit(self, pend, now_ns) ==
    simple_interruptible_check([self EXCEPT !.ns_last_check = now_ns], pend)

\* mutant: an invocation that does not ask the host is counted too
timed_check_CountsAll(self, pend, now_ns) ==
    IF (now_ns - self.ns_last_check) % NanosecMod < self.ns_between_checks
    THEN [rv |-> 0, self |-> [self EXCEPT !.check_count = @ + 1],
          pending |-> pend, queried |-> FALSE]
    ELSE simple_interruptible_check([self EXCEPT !.ns_last_check = now_ns], pend)

\* mutant: the host is asked only when more than the interval has passed
timed_check_Late(self, pend, now_ns) ==
    IF (now_ns - self.ns_last_check) % NanosecMod <= self.ns_between_checks
    THEN [rv |-> 0, self |-> self, pending |-> pend, queried |-> FALSE]
    ELSE simple_interruptible_check([self EXCEPT !.ns_last_check = now_ns], pend)

\* now_ns is monotonic_now_ns(); the subtraction is unsigned
timed_interruptible_check(self, pend, now_ns) ==
    IF (now_ns - self.ns_last_check) % NanosecMod < self.ns_between_checks
    THEN [rv |-> 0, self |-> self, pending |-> pend, queried |-> FALSE]
    ELSE simple_interruptible_check([self EXCEPT !.ns_last_check = now_ns], pend)

\* now_ns is monotonic_coarse_now_ns()
timed_coarse_interruptible_check(self, pend, now_ns) ==
    IF (now_ns - self.ns_last_check) % NanosecMod < self.ns_between_checks
    THEN [rv |-> 0, self |-> self, pending |-> pend, queried |-> FALSE]
    ELSE simple_interruptible_check([self EXCEPT !.ns_last_check = now_ns], pend)

\* should_stop->check(should_stop), through the function pointer
Check ==
    CASE policy = "never"  -> uninterruptible_check(Self, pending)
      [] policy = "simple" -> simple_interruptible_check(Self, pending)
      [] policy = "timed"  -> timed_interruptible_check(Self, pending, clock)
      [] policy = "coarse" -> timed_coarse_interruptible_check(Self, pending, coarse)

\* the clock the policy reads
PolicyNow == IF policy = "coarse" THEN coarse ELSE clock

\* the record of host queries after the query q
Queried(q) == IF hq = <<>> THEN <<q>> ELSE <<hq[Len(hq)], q>>

\* mutant: the check function calls PyErr_CheckSignals as it is
GilAtQuery_NoEnsure(held, rel) == held

\* simple_interruptible_check: whether the GIL is held at PyErr_CheckSignals;
\* with release_gil the call is bracketed by PyGILState_Ensure and
\* PyGILState_Release, which leave the thread's GIL state as it was
GilAtQuery(held, rel) == held \/ rel

\* the effect of one callback invocation c on the callback's state
Checked(c) ==
    /\ check_count' = c.self.check_count
    /\ ns_last_check' = c.self.ns_last_check
    /\ pending' = c.pending
    /\ hq' = IF c.queried
             THEN Queried([n |-> nq + 1, at |-> PolicyNow, by |-> "policy",
                           gil |-> GilAtQuery(gil, release_gil)])
             ELSE hq
    /\ nq' = IF c.queried THEN nq + 1 ELSE nq
    /\ ninv' = ninv + 1
    /\ since_check' = 0

(***************************************************************************)
(* kissfft_subset.c: kf_work as a stack of invocations.                    *)
(***************************************************************************)
\* what an entry of st->factors that kf_factor never wrote may hold
JunkFactors == { [radix |-> 0, stride |-> 0],
                 [radix |-> 1, stride |-> 1],
                 [radix |-> 2, stride |-> 1] }

\* factors->radix, factors->stride for the entry at (1-based) index fac
FactorRead(fac) ==
    IF fac <= Len(factors) THEN {factors[fac]} ELSE JunkFactors

\* the call and the locals kf_work sets up before its first branch
NewFrame(fac, Fout, f, fstride, pm) ==
    [fac |-> fac, p |-> pm.radix, m |-> pm.stride,
     Fout_beg |-> Fout, Fout |-> Fout, f |-> f, fstride |-> fstride,
     pc |-> IF pm.stride = 1 THEN "leaf" ELSE "rec",
     rv |-> 0,
     \* history of this invocation
     c1 |-> 0, rv1 |-> 0, c2 |-> 0, combined |-> 0, copied |-> 0, kids |-> 0,
     child_aborted |-> FALSE]

Top == stack[Len(stack)]
SetTop(fr) == [stack EXCEPT ![Len(stack)] = fr]

\* the leaf loop stays inside both buffers
LeafInBounds(fr) ==
    \A i \in 0 .. (fr.p - 1) :
        /\ fr.Fout_beg + i < len_in
        /\ fr.f + i * fr.fstride < len_in

\* kf_bfly2/kf_bfly4 stay inside the output buffer and the twiddle table
CombineInBounds(fr) ==
    /\ fr.m >= 1
    /\ fr.Fout_beg + fr.p * fr.m <= len_in
    /\ (fr.p - 1) * (fr.m - 1) * fr.fstride <= len_in - 2

\* mutant: a sub-transform's abort code is ignored
ChildAborts_Never(rv) == FALSE

\* if (rv) return rv;
ChildAborts(rv) == rv # 0

Dead == {"crashed", "aborted"}
Running == mpc \notin ({"done"} \cup Dead)

NoteWork ==
    work_after_abort' = (work_after_abort \/ abort_v # 0)

(***************************************************************************)
(* interruptible.c: maybe_interruptible, step by step.                     *)
(***************************************************************************)
\* buffer lengths tried: 0 .. MaxLen samples, and one past the maximum
MaxLen == 8
Lengths == (0 .. MaxLen) \cup {KISS_FFT_MAX_SAMPLES + 1}

InitFFT ==
    /\ policy \in Policies
    /\ release_gil \in BOOLEAN
    /\ ns_between_checks \in
          (IF policy \in {"timed", "coarse"} THEN 0 .. MaxInterval ELSE {0})
    /\ len_in \in Lengths
    /\ len_out \in {len_in, len_in + 1}
    /\ malloc_ok \in BOOLEAN
    /\ should_stop = "set"
    /\ mpc = "buffers"
    /\ clock = 0
    /\ coarse = 0
    /\ pending \in BOOLEAN
    /\ sigs = pending
    /\ gil = TRUE
    /\ blocked \in BOOLEAN
    /\ prev = FALSE
    /\ start_ns = 0
    /\ stop_ns = 0
    /\ check_count = 0
    /\ ns_last_check = 0
    /\ factors = <<>>
    /\ stack = <<>>
    /\ fft_rv = 0
    /\ interrupted = 0
    /\ result = "none"
    /\ out_written = FALSE
    /\ corrupt = FALSE
    /\ hq = <<>>
    /\ nq = 0
    /\ ninv = 0
    /\ abort_v = 0
    /\ work_after_abort = FALSE
    /\ since_check = 0

IdleFFT ==
    /\ policy = "never"
    /\ release_gil = FALSE
    /\ ns_between_checks = 0
    /\ len_in = 0
    /\ len_out = 0
    /\ malloc_ok = TRUE
    /\ should_stop = "set"
    /\ mpc = "done"
    /\ clock = 0
    /\ coarse = 0
    /\ pending = FALSE
    /\ sigs = FALSE
    /\ gil = TRUE
    /\ blocked = FALSE
    /\ prev = FALSE
    /\ start_ns = 0
    /\ stop_ns = 0
    /\ check_count = 0
    /\ ns_last_check = 0
    /\ factors = <<>>
    /\ stack = <<>>
    /\ fft_rv = 0
    /\ interrupted = 0
    /\ result = "none"
    /\ out_written = FALSE
    /\ corrupt = FALSE
    /\ hq = <<>>
    /\ nq = 0
    /\ ninv = 0
    /\ abort_v = 0
    /\ work_after_abort = FALSE
    /\ since_check = 0

\* maybe_interruptible_get_buffers: the three size tests
GetBuffers ==
    /\ mpc = "buffers"
    /\ IF len_in # len_out
       THEN mpc' = "done" /\ result' = "ValueError_same_size"
       ELSE IF len_in = 0
       THEN mpc' = "done" /\ result' = "ValueError_not_enough"
       ELSE IF len_in > KISS_FFT_MAX_SAMPLES
       THEN mpc' = "done" /\ result' = "ValueError_too_many"
       ELSE mpc' = "start" /\ result' = result
    /\ UNCHANGED <<gil, blocked, prev, start_ns, stop_ns, factors, stack, fft_rv,
                   interrupted, out_written, corrupt, abort_v, work_after_abort,
                   since_check>>
    /\ UNCHANGED <<cfgVars, hostVars, chkVars, timeVars, facVars, pscVars>>

\* sigprocmask(SIG_UNBLOCK, SIGINT, &prev); start_ns; ns_last_check
StartTiming ==
    /\ mpc = "start"
    /\ prev' = blocked
    /\ blocked' = FALSE
    /\ start_ns' = clock
    /\ ns_last_check' = IF ns_between_checks # 0 THEN clock ELSE ns_last_check
    /\ mpc' = "alloc"
    /\ UNCHANGED <<gil, stop_ns, factors, stack, fft_rv, interrupted, result,
                   out_written, corrupt, abort_v, work_after_abort, since_check>>
    /\ UNCHANGED <<cfgVars, hostVars, check_count, hq, nq, ninv, timeVars, facVars,
                   pscVars>>

\* st = kiss_fft_alloc((uint32_t) samples) and the two "goto out" tests
Alloc ==
    /\ mpc = "alloc"
    /\ LET a == kiss_fft_alloc(len_in, malloc_ok)
       IN  CASE a.st = "null" ->
                  mpc' = "done" /\ result' = "MemoryError" /\ factors' = factors
             [] a.st = "minus1" ->
                  mpc' = "done" /\ result' = "ValueError_not_pow2"
                  /\ factors' = factors
             [] OTHER ->
                  mpc' = "check0" /\ result' = result /\ factors' = a.factors
    /\ UNCHANGED <<gil, blocked, prev, start_ns, stop_ns, stack, fft_rv,
                   interrupted, out_written, corrupt, abort_v, work_after_abort,
                   since_check>>
    /\ UNCHANGED <<cfgVars, hostVars, chkVars, timeVars, facVars, pscVars>>

\* if (ssbase->check(ssbase)) interrupted = 1; else ... kiss_fft(...): the check,
\* then Py_BEGIN_ALLOW_THREADS and the outermost kf_work call
FirstCheck ==
    /\ mpc = "check0"
    /\ LET c == Check
       IN  /\ Checked(c)
           /\ IF c.rv # 0
              THEN /\ interrupted' = 1
                   /\ mpc' = "post"
                   /\ UNCHANGED <<stack, gil>>
              ELSE /\ interrupted' = interrupted
                   /\ mpc' = "fft"
                   /\ gil' = IF release_gil THEN FALSE ELSE gil
                   /\ \E pm \in FactorRead(1) :
                         stack' = <<NewFrame(1, 0, 0, 1, pm)>>
    /\ UNCHANGED <<blocked, prev, start_ns, stop_ns, factors, fft_rv, result,
                   out_written, corrupt, abort_v, work_after_abort>>
    /\ UNCHANGED <<cfgVars, clock, coarse, sigs, timeVars, facVars, pscVars>>

\* the m == 1 branch: the whole copy loop
KfLeaf ==
    /\ mpc = "fft" /\ Top.pc = "leaf"
    /\ NoteWork
    /\ \/ /\ Top.p >= 1
          /\ IF LeafInBounds(Top) THEN corrupt' = corrupt ELSE corrupt' = TRUE
          /\ stack' = SetTop([Top EXCEPT !.pc = "check1", !.copied = @ + 1,
                                         !.Fout = Top.Fout_beg + Top.p,
                                         !.f = Top.f + Top.p * Top.fstride])
          /\ out_written' = TRUE
          /\ since_check' = since_check + 1
          /\ mpc' = mpc
       \/ \* the loop runs off the buffers: p is 0 and ++Fout never meets
          \* Fout_end, or an access outside the buffers faults
          /\ Top.p = 0 \/ ~LeafInBounds(Top)
          /\ mpc' = "crashed"
          /\ out_written' = TRUE
          /\ UNCHANGED <<stack, corrupt, since_check>>
    /\ UNCHANGED <<gil, blocked, prev, start_ns, stop_ns, factors, fft_rv,
                   interrupted, result, abort_v>>
    /\ UNCHANGED <<cfgVars, hostVars, chkVars, timeVars, facVars, pscVars>>

\* the recursive call kf_work(Fout, f, fstride * p, factors + 1, st, should_stop)
KfRecurse ==
    /\ mpc = "fft" /\ Top.pc = "rec"
    /\ NoteWork
    /\ IF Top.fac + 1 > MAXFACTORS
       THEN \* factors + 1 points past the array
            mpc' = "crashed" /\ stack' = stack
       ELSE /\ mpc' = mpc
            /\ \E pm \in FactorRead(Top.fac + 1) :
                  stack' = Append(stack, NewFrame(Top.fac + 1, Top.Fout, Top.f,
                                                  Top.fstride * Top.p, pm))
    /\ UNCHANGED <<gil, blocked, prev, start_ns, stop_ns, factors, fft_rv,
                   interrupted, result, out_written, corrupt, abort_v, since_check>>
    /\ UNCHANGED <<cfgVars, hostVars, chkVars, timeVars, facVars, pscVars>>

\* back in the caller: if (rv) return rv; f += fstride;
\* while ((Fout += m) != Fout_end)
KfChildReturn ==
    /\ mpc = "fft" /\ Len(stack) >= 2 /\ Top.pc = "ret"
    /\ LET parent == stack[Len(stack) - 1]
           Fout2 == parent.Fout + parent.m
           Fout_end == parent.Fout_beg + parent.p * parent.m
           after == IF ChildAborts(Top.rv)
                    THEN [parent EXCEPT !.pc = "ret", !.rv = Top.rv,
                                        !.child_aborted = TRUE]
                    ELSE [parent EXCEPT !.f = parent.f + parent.fstride,
                                        !.Fout = Fout2,
                                        !.kids = @ + 1,
                                        !.pc = IF Fout2 # Fout_end
                                               THEN "rec" ELSE "check1"]
       IN  stack' = Append(SubSeq(stack, 1, Len(stack) - 2), after)
    /\ UNCHANGED <<mpc, gil, blocked, prev, start_ns, stop_ns, factors, fft_rv,
                   interrupted, result, out_written, corrupt, abort_v,
                   work_after_abort, since_check>>
    /\ UNCHANGED <<cfgVars, hostVars, chkVars, timeVars, facVars, pscVars>>

\* rv = should_stop->check(should_stop); if (rv) return rv;
KfCheck1 ==
    /\ mpc = "fft" /\ Top.pc = "check1"
    /\ should_stop # "NULL"
    /\ NoteWork
    /\ LET c == Check
       IN  /\ Checked(c)
           /\ stack' = SetTop([Top EXCEPT !.c1 = @ + 1, !.rv1 = c.rv, !.rv = c.rv,
                                          !.pc = IF c.rv # 0 THEN "ret"
                                                 ELSE "combine"])
           /\ abort_v' = IF abort_v = 0 THEN c.rv ELSE abort_v
    /\ UNCHANGED <<mpc, gil, blocked, prev, start_ns, stop_ns, factors, fft_rv,
                   interrupted, result, out_written, corrupt>>
    /\ UNCHANGED <<cfgVars, clock, coarse, sigs, timeVars, facVars, pscVars>>

\* mutant: the stage returns after its combine without the second check
AfterCombine_Return(p) == "ret"

\* after the switch: return should_stop->check(should_stop)
AfterCombine(p) == "check2"

\* switch (p): kf_bfly2, kf_bfly4 or abort()
KfCombine ==
    /\ mpc = "fft" /\ Top.pc = "combine"
    /\ NoteWork
    /\ IF Top.p \notin {2, 4}
       THEN mpc' = "aborted" /\ UNCHANGED <<stack, corrupt, since_check>>
       ELSE \/ /\ IF CombineInBounds(Top) THEN corrupt' = corrupt
                  ELSE corrupt' = TRUE
               /\ stack' = SetTop([Top EXCEPT !.pc = AfterCombine(Top.p),
                                              !.combined = @ + 1])
               /\ since_check' = since_check + 1
               /\ mpc' = mpc
            \/ /\ ~CombineInBounds(Top)
               /\ mpc' = "crashed"
               /\ UNCHANGED <<stack, corrupt, since_check>>
    /\ UNCHANGED <<gil, blocked, prev, start_ns, stop_ns, factors, fft_rv,
                   interrupted, result, out_written, abort_v>>
    /\ UNCHANGED <<cfgVars, hostVars, chkVars, timeVars, facVars, pscVars>>

\* return should_stop->check(should_stop);
KfCheck2 ==
    /\ mpc = "fft" /\ Top.pc = "check2"
    /\ should_stop # "NULL"
    /\ NoteWork
    /\ LET c == Check
       IN  /\ Checked(c)
           /\ stack' = SetTop([Top EXCEPT !.c2 = @ + 1, !.rv = c.rv, !.pc = "ret"])
           /\ abort_v' = IF abort_v = 0 THEN c.rv ELSE abort_v
    /\ UNCHANGED <<mpc, gil, blocked, prev, start_ns, stop_ns, factors, fft_rv,
                   interrupted, result, out_written, corrupt>>
    /\ UNCHANGED <<cfgVars, clock, coarse, sigs, timeVars, facVars, pscVars>>

\* what should_stop->check(should_stop) does when should_stop is NULL: the
\* load of the function pointer through the null pointer is undefined
\* behaviour; kf_work has no test of should_stop, so no build skips the call,
\* and the process ends in a fault
NullCall == {"crashed"}

\* rv = should_stop->check(should_stop) with should_stop == NULL, at either
\* call site
KfCheckNull ==
    /\ mpc = "fft" /\ Top.pc \in {"check1", "check2"}
    /\ should_stop = "NULL"
    /\ NoteWork
    /\ mpc' \in NullCall
    /\ UNCHANGED <<gil, blocked, prev, start_ns, stop_ns, factors, stack, fft_rv,
                   interrupted, result, out_written, corrupt, abort_v, since_check>>
    /\ UNCHANGED <<cfgVars, hostVars, chkVars, timeVars, facVars, pscVars>>

\* kiss_fft returns to maybe_interruptible: interrupted = kiss_fft(...), then
\* Py_END_ALLOW_THREADS
KfFinish ==
    /\ mpc = "fft" /\ Len(stack) = 1 /\ Top.pc = "ret"
    /\ fft_rv' = Top.rv
    /\ interrupted' = Top.rv
    /\ gil' = IF release_gil THEN TRUE ELSE gil
    /\ stack' = <<>>
    /\ mpc' = "post"
    /\ UNCHANGED <<blocked, prev, start_ns, stop_ns, factors, result, out_written,
                   corrupt, abort_v, work_after_abort, since_check>>
    /\ UNCHANGED <<cfgVars, hostVars, chkVars, timeVars, facVars, pscVars>>

\* mutant: no query is made after kiss_fft
FinalQuery_Skipped(intr, pend) ==
    [asked |-> FALSE, interrupted |-> intr, pending |-> pend]

\* if (!interrupted && PyErr_CheckSignals()) interrupted = 1;
FinalQuery(intr, pend) ==
    IF intr = 0
    THEN [asked |-> TRUE,
          interrupted |-> IF PyErr_CheckSignals(pend).rv # 0 THEN 1 ELSE 0,
          pending |-> PyErr_CheckSignals(pend).pending]
    ELSE [asked |-> FALSE, interrupted |-> intr, pending |-> pend]

\* stop_ns; free(st); the unconditional PyErr_CheckSignals; sigprocmask
\* (SIG_SETMASK, &prev); the result tuple or Interrupted
Finish ==
    /\ mpc = "post"
    /\ stop_ns' = clock
    /\ LET q == FinalQuery(interrupted, pending)
       IN  /\ interrupted' = q.interrupted
           /\ pending' = q.pending
           /\ hq' = IF q.asked
                    THEN Queried([n |-> nq + 1, at |-> clock, by |-> "final",
                                  gil |-> gil])
                    ELSE hq
           /\ nq' = IF q.asked THEN nq + 1 ELSE nq
    /\ blocked' = prev
    /\ result' = IF interrupted' # 0 THEN "Interrupted" ELSE "ok"
    /\ mpc' = "done"
    /\ UNCHANGED <<gil, prev, start_ns, factors, stack, fft_rv, out_written,
                   corrupt, abort_v, work_after_abort, since_check>>
    /\ UNCHANGED <<cfgVars, clock, coarse, sigs, check_count, ns_last_check, ninv,
                   timeVars,
                   facVars, pscVars>>

\* time passes
Tick ==
    /\ Running
    /\ clock < MaxClock
    /\ clock' = clock + 1
    /\ UNCHANGED <<coarse, pending, sigs, cfgVars, chkVars, runVars, timeVars, facVars, pscVars>>

\* a timer tick brings the coarse clock up to date; the coarse clock is
\* followed only in calls that read it
CoarseTick ==
    /\ Running
    /\ policy = "coarse"
    /\ coarse < clock
    /\ coarse' = clock
    /\ UNCHANGED <<clock, pending, sigs, cfgVars, chkVars, runVars, timeVars, facVars, pscVars>>

\* SIGINT is delivered and the host records it as pending
SignalArrives ==
    /\ Running
    /\ ~blocked
    /\ ~pending
    /\ pending' = TRUE
    /\ sigs' = TRUE
    /\ UNCHANGED <<clock, coarse, cfgVars, chkVars, runVars, timeVars, facVars, pscVars>>

(***************************************************************************)
(* CheckSignalsOftenEnough.c: CheckSignalsOftenEnough, called from one      *)
(* thread.  CLOCK_MONOTONIC_COARSE counts from an arbitrary start, far      *)
(* below the largest time_t; a reading may precede an earlier one.          *)
(***************************************************************************)
\* largest tv_sec the coarse clock returns in the model
MaxCoarseSec == 2
CoarseReadings == [tv_sec : 0 .. MaxCoarseSec, tv_nsec : NsecField]

\* one call: clock_gettime; return 0 unless the difference test passes;
\* last_check = now; PyGILState_Ensure, PyErr_CheckSignals, PyGILState_Release
CheckSignalsOftenEnough ==
    /\ \E now \in CoarseReadings :
       \E due \in timespec_difference_at_least(now, last_check, ONE_MS_IN_NS) :
          /\ cso_now' = now
          /\ cso_prev' = last_check
          /\ IF due = 0
             THEN /\ cso_rv' = 0
                  /\ cso_asked' = FALSE
                  /\ UNCHANGED <<last_check, pending>>
             ELSE /\ last_check' = now
                  /\ cso_asked' = TRUE
                  /\ cso_rv' = PyErr_CheckSignals(pending).rv
                  /\ pending' = PyErr_CheckSignals(pending).pending
    /\ UNCHANGED <<t_after, t_before, t_min, r_mul, r_cases, r_tsdal, dlVars,
                   raceVars, clock, coarse, sigs, cfgVars, chkVars, runVars, facVars,
                   pscVars>>

\* SIGINT is delivered between two calls and the host records it as pending
SignalBetweenCalls ==
    /\ ~pending
    /\ pending' = TRUE
    /\ sigs' = TRUE
    /\ UNCHANGED <<clock, coarse, cfgVars, chkVars, runVars, timeVars, facVars,
                   pscVars>>

(***************************************************************************)
(* CheckSignalsOftenEnough called from two threads that do not hold the    *)
(* GIL.  last_check is a static object read and written without a lock:    *)
(* the accesses of the two calls are a data race, followed here as every   *)
(* interleaving of the loads and stores of its two fields.                 *)
(***************************************************************************)
\* the coarse clock runs from 0 to MaxRaceClock nanoseconds
MaxRaceClock == 5
\* clock_gettime's result for the clock value c
Reading(c) == [tv_sec |-> c \div ONE_S_IN_NS, tv_nsec |-> c % ONE_S_IN_NS]

RaceRest == <<t_after, t_before, t_min, r_mul, r_cases, r_tsdal, cso_now,
              cso_prev, cso_rv, cso_asked, dlVars, facVars, fftVars, pscVars>>

\* clock_gettime(CLOCK_MONOTONIC_COARSE, &now), and the load of
\* last_check.tv_sec for the comparison
CsoReadSec(t) ==
    /\ cso_thr[t].pc = "idle"
    /\ cso_thr' = [cso_thr EXCEPT ![t].pc = "read_nsec",
                                  ![t].now = cso_clock,
                                  ![t].seen_sec = last_check.tv_sec]
    /\ UNCHANGED <<last_check, cso_clock, lc_src, RaceRest>>

\* the load of last_check.tv_nsec and the test: return 0 when the difference
\* is below 1 ms
CsoCompare(t) ==
    /\ cso_thr[t].pc = "read_nsec"
    /\ LET seen == [tv_sec |-> cso_thr[t].seen_sec,
                    tv_nsec |-> last_check.tv_nsec]
       IN  \E due \in timespec_difference_at_least(Reading(cso_thr[t].now),
                                                    seen, ONE_MS_IN_NS) :
              cso_thr' = [cso_thr EXCEPT ![t].pc = IF due = 0 THEN "idle"
                                                  ELSE "write_sec"]
    /\ UNCHANGED <<last_check, cso_clock, lc_src, RaceRest>>

\* last_check = now: the store of tv_sec
CsoWriteSec(t) ==
    /\ cso_thr[t].pc = "write_sec"
    /\ last_check' = [last_check EXCEPT
                         !.tv_sec = Reading(cso_thr[t].now).tv_sec]
    /\ lc_src' = [lc_src EXCEPT !.sec = cso_thr[t].now]
    /\ cso_thr' = [cso_thr EXCEPT ![t].pc = "write_nsec"]
    /\ UNCHANGED <<cso_clock, RaceRest>>

\* last_check = now: the store of tv_nsec
CsoWriteNsec(t) ==
    /\ cso_thr[t].pc = "write_nsec"
    /\ last_check' = [last_check EXCEPT
                         !.tv_nsec = Reading(cso_thr[t].now).tv_nsec]
    /\ lc_src' = [lc_src EXCEPT !.nsec = cso_thr[t].now]
    /\ cso_thr' = [cso_thr EXCEPT ![t].pc = "query"]
    /\ UNCHANGED <<cso_clock, RaceRest>>

\* PyGILState_Ensure; PyErr_CheckSignals; PyGILState_Release; return
CsoQuery(t) ==
    /\ cso_thr[t].pc = "query"
    /\ cso_thr' = [cso_thr EXCEPT ![t].pc = "idle", ![t].asked = cso_thr[t].now]
    /\ UNCHANGED <<last_check, cso_clock, lc_src, RaceRest>>

\* the coarse clock advances
CsoTick ==
    /\ cso_clock < MaxRaceClock
    /\ cso_clock' = cso_clock + 1
    /\ UNCHANGED <<last_check, cso_thr, lc_src, RaceRest>>

(***************************************************************************)
(* signaler.c: the one-shot stop event, the signal thread, and __enter__   *)
(* and __exit__ of PeriodicSignalContext.  The methods run with the GIL    *)
(* held, so one call is in progress at a time; the signal threads run      *)
(* beside it.                                                              *)
(***************************************************************************)
\* nanoseconds per second in signaler.c (10^9 in the source), scaled
NS_PER_S == 2
\* the largest unsigned int, scaled
UINT_MAX == 3
\* thread slots: how many signal threads can exist at once
MaxThreads == 2
\* CLOCK_REALTIME readings run from 0 to MaxNow
MaxNow == 3
\* the largest interval.tv_sec tried
MaxIntervalSec == 1

Threads == 1 .. MaxThreads

ZeroTs == [tv_sec |-> 0, tv_nsec |-> 0]
\* the intervals PSC_init stores: at least one nanosecond
Intervals ==
    [tv_sec : 0 .. MaxIntervalSec, tv_nsec : 0 .. (NS_PER_S - 1)] \ {ZeroTs}

MutexFree == [held |-> FALSE, by |-> 0]
\* by: 0 is the thread calling the methods, t >= 1 a signal thread
HeldBy(who) == [held |-> TRUE, by |-> who]

\* began: the clock reading OSE_wait started from; kill_failed: the thread
\* left its loop because kill() failed (both history; kill_failed is kept
\* after the join until the slot is used again)
NoThread == [pc |-> "none", stop_waiting_at |-> ZeroTs, err |-> "ok",
             woken |-> FALSE, began |-> 0, kill_failed |-> FALSE]
NewThread == [NoThread EXCEPT !.pc = "start"]

Alive(t) == thr[t].pc \notin {"none", "exited"}
Exists(t) == thr[t].pc # "none"
FreeSlots == {t \in Threads : ~Exists(t)}
\* the slot a new thread gets
FreeTid == CHOOSE t \in FreeSlots : \A u \in FreeSlots : t <= u

\* clock_gettime(CLOCK_REALTIME, &ts)
RealtimeNow == [tv_sec |-> now_rt \div NS_PER_S, tv_nsec |-> now_rt % NS_PER_S]

\* while (stop_waiting_at.tv_nsec >= NS_PER_S) { tv_sec += 1; tv_nsec -= NS_PER_S; }
RECURSIVE CarryNsec(_)
CarryNsec(ts) ==
    IF ts.tv_nsec >= NS_PER_S
    THEN CarryNsec([tv_sec |-> ts.tv_sec + 1, tv_nsec |-> ts.tv_nsec - NS_PER_S])
    ELSE ts

\* OSE_wait's absolute deadline from the clock reading and the delay
StopWaitingAt(nowts, delay) ==
    CarryNsec([tv_sec |-> nowts.tv_sec + delay.tv_sec,
               tv_nsec |-> nowts.tv_nsec + delay.tv_nsec])

\* struct timespec with a time_t tv_sec of the scaled signed 64-bit range
WaitTimespec == [tv_sec : TimeT, tv_nsec : 0 .. (NS_PER_S - 1)]

\* stop_waiting_at.tv_sec += delay->tv_sec and the carries stay within time_t
DeadlineDefined(nowts, delay) ==
    /\ InInt64(nowts.tv_sec + delay.tv_sec)
    /\ InInt64(StopWaitingAt(nowts, delay).tv_sec)

\* the deadlines OSE_wait may hand to pthread_cond_timedwait: the sum, or
\* anything when the signed addition overflows (undefined behaviour)
OSE_wait_deadline(nowts, delay) ==
    IF DeadlineDefined(nowts, delay)
    THEN {StopWaitingAt(nowts, delay)}
    ELSE WaitTimespec

\* the deadline computation on its own, for one reading and one delay
CallDeadline ==
    /\ ~d_done
    /\ d_res' \in OSE_wait_deadline(d_now, d_delay)
    /\ d_done' = TRUE
    /\ UNCHANGED <<d_now, d_delay, t_after, t_before, t_min, r_mul, r_cases,
                   r_tsdal, csoVars, facVars, fftVars, pscVars>>

\* pthread_cond_timedwait's test: the clock has reached the absolute time
DeadlinePassed(nowts, abstime) ==
    \/ nowts.tv_sec > abstime.tv_sec
    \/ nowts.tv_sec = abstime.tv_sec /\ nowts.tv_nsec >= abstime.tv_nsec

\* mutant: every __enter__ creates a thread
NeedsCreate_Always(count) == TRUE

\* PSC_enter: if (self->entry_count == 0)
NeedsCreate(count) == count = 0

\* mutant: every __exit__ of an entered context stops the thread
NeedsStop_Every(count) == count >= 1

\* PSC_exit: if (self->entry_count == 1)
NeedsStop(count) == count = 1

\* mutant: the join does not wait for the thread
JoinReturns_AtOnce(pc) == TRUE

\* pthread_join returns once the thread has terminated (a handle that was
\* already joined makes it return at once)
JoinReturns(pc) == pc \in {"exited", "none"}

\* mutant: the wait loop never looks at the flag
WaitOver_Never(flag) == FALSE

\* OSE_wait: while (!ev->signaled)
WaitOver(flag) == flag

\* mutant: the flag is set but nobody is woken
Broadcast_Nobody(threads) == threads

\* pthread_cond_broadcast: every thread blocked on the condition is woken
Broadcast(threads) ==
    [t \in Threads |->
        IF threads[t].pc = "blocked" THEN [threads[t] EXCEPT !.woken = TRUE]
        ELSE threads[t]]

\* tried: the call went as far as pthread_create (an __enter__) or
\* stop_signal_thread (an __exit__, the deallocation); prev_failed: the call
\* before it was an __enter__ whose pthread_create failed; join_err: its
\* pthread_join failed; workers: the threads created so far, counted up to
\* "more than one"
NoCall == [op |-> "none", depth |-> 0, ok |-> TRUE, created |-> FALSE,
           stopped |-> FALSE, after |-> 0, tried |-> FALSE,
           prev_failed |-> FALSE, join_err |-> FALSE, workers |-> 0]
FailedCreate(c) == c.op = "enter" /\ c.tried /\ ~c.created

\* the default of __init__'s signal argument
SIGINT == 2
\* the host's valid signal numbers are 1 .. MaxSignal
MaxSignal == 2
\* what PSC_new leaves in the object
NoInit == [called |-> FALSE, parsed |-> FALSE, sig |-> 0,
           ival |-> [kind |-> "num", h |-> 0],
           rv |-> 0, was_signal |-> 0, was_interval |-> ZeroTs]
NoEpisode == [pat |-> "off", arms |-> 0, disarms |-> 0, creates |-> 0, joins |-> 0]
\* counts one more, up to "more than one"
Once(n, happened) == IF happened /\ n < 2 THEN n + 1 ELSE n

InitSignaler ==
    /\ interval \in Intervals
    /\ entry_count = 0
    /\ signal_thread = 1
    /\ signaled = FALSE
    /\ mutex = MutexFree
    /\ thr = [t \in Threads |-> NoThread]
    /\ opc = "idle"
    /\ now_rt = 0
    /\ last_call = NoCall
    /\ reaped = FALSE
    /\ req_pc = "none"
    /\ sent = FALSE
    /\ late_kill = FALSE
    /\ ep = NoEpisode
    /\ caller = "none"
    /\ join_err = FALSE
    /\ signal = SIGINT
    /\ last_init = NoInit

IdleSignaler ==
    /\ interval = [tv_sec |-> 0, tv_nsec |-> 1]
    /\ entry_count = 0
    /\ signal_thread = 1
    /\ signaled = FALSE
    /\ mutex = MutexFree
    /\ thr = [t \in Threads |-> NoThread]
    /\ opc = "idle"
    /\ now_rt = 0
    /\ last_call = NoCall
    /\ reaped = FALSE
    /\ req_pc = "none"
    /\ sent = FALSE
    /\ late_kill = FALSE
    /\ ep = NoEpisode
    /\ caller = "none"
    /\ join_err = FALSE
    /\ signal = SIGINT
    /\ last_init = NoInit

hisVars == <<last_call, reaped, req_pc, sent, late_kill, ep>>
othVars == <<timeVars, facVars, fftVars>>

\* what the run of calls since the context was last idle looks like after an
\* __enter__ that returned; created: it started a thread
EnterEpisode(ok, created) ==
    IF ~ok THEN NoEpisode
    ELSE IF entry_count = 0 /\ \A t \in Threads : ~Exists(t)
    THEN [pat |-> "arming", arms |-> 1, disarms |-> 0,
          creates |-> Once(0, created), joins |-> 0]
    ELSE IF ep.pat = "arming"
    THEN [ep EXCEPT !.arms = @ + 1, !.creates = Once(@, created)]
    ELSE NoEpisode

\* the same after an __exit__ that returned; joined: it joined a thread
ExitEpisode(joined) ==
    IF ep.pat \in {"arming", "disarming"} /\ ep.disarms < ep.arms
    THEN [ep EXCEPT !.pat = "disarming", !.disarms = @ + 1,
                    !.joins = Once(@, joined)]
    ELSE NoEpisode

\* mutant: the depth is incremented whether or not pthread_create failed
DepthAfterCreate_Always(count, failed) == count + 1

\* if (err) { ... return PyErr_SetFromErrno(PyExc_OSError); }
\* self->entry_count += 1;
DepthAfterCreate(count, failed) == IF failed THEN count ELSE count + 1

\* PSC_enter, the whole method: it never blocks
PSC_enter ==
    /\ opc = "idle"
    /\ \/ \* too many nested calls
          /\ entry_count = UINT_MAX
          /\ UNCHANGED <<entry_count, thr, signal_thread, sent>>
       \/ \* pthread_create, which may fail
          /\ entry_count # UINT_MAX
          /\ NeedsCreate(entry_count)
          /\ \E err \in BOOLEAN :
                /\ IF err \/ FreeSlots = {}
                   THEN UNCHANGED <<thr, signal_thread, sent>>
                   ELSE /\ thr' = [thr EXCEPT ![FreeTid] = NewThread]
                        /\ signal_thread' = FreeTid
                        /\ sent' = FALSE
                /\ entry_count' =
                      DepthAfterCreate(entry_count, err \/ FreeSlots = {})
       \/ /\ entry_count # UINT_MAX
          /\ ~NeedsCreate(entry_count)
          /\ entry_count' = entry_count + 1
          /\ UNCHANGED <<thr, signal_thread, sent>>
    /\ last_call' = [op |-> "enter", depth |-> entry_count,
                     ok |-> (entry_count' # entry_count),
                     created |-> (thr' # thr), stopped |-> FALSE,
                     after |-> entry_count',
                     tried |-> (entry_count # UINT_MAX
                                /\ NeedsCreate(entry_count)),
                     prev_failed |-> FailedCreate(last_call),
                     join_err |-> FALSE,
                     workers |-> Once(last_call.workers, thr' # thr)]
    /\ ep' = EnterEpisode(entry_count' # entry_count, thr' # thr)
    /\ UNCHANGED <<interval, signaled, mutex, opc, now_rt, reaped, req_pc,
                   late_kill, othVars, objVars>>

\* PSC_exit up to its first blocking point: either the whole method, or the
\* entry into stop_signal_thread
PSC_exit ==
    /\ opc = "idle"
    /\ IF NeedsStop(entry_count)
       THEN /\ opc' = "signal_lock"
            /\ caller' = "exit"
            /\ req_pc' = thr[signal_thread].pc
            /\ UNCHANGED <<entry_count, last_call, ep>>
       ELSE /\ entry_count' = IF entry_count > 0 THEN entry_count - 1
                              ELSE entry_count
            /\ last_call' = [op |-> "exit", depth |-> entry_count, ok |-> TRUE,
                             created |-> FALSE, stopped |-> FALSE,
                             after |-> entry_count', tried |-> FALSE,
                             prev_failed |-> FailedCreate(last_call),
                             join_err |-> FALSE,
                             workers |-> last_call.workers]
            /\ ep' = ExitEpisode(FALSE)
            /\ UNCHANGED <<opc, req_pc, caller>>
    /\ reaped' = FALSE
    /\ join_err' = FALSE
    /\ UNCHANGED <<interval, signal_thread, signaled, mutex, thr, now_rt, sent,
                   late_kill, othVars, signal, last_init>>

\* OSE_signal: pthread_mutex_lock
OSE_signal_lock ==
    /\ opc = "signal_lock"
    /\ ~mutex.held
    /\ mutex' = HeldBy(0)
    /\ opc' = "signal_set"
    /\ UNCHANGED <<interval, entry_count, signal_thread, signaled, thr, now_rt,
                   hisVars, othVars, objVars>>

\* OSE_signal: ev->signaled = true; pthread_cond_broadcast
OSE_signal_set ==
    /\ opc = "signal_set"
    /\ signaled' = TRUE
    /\ thr' = Broadcast(thr)
    /\ opc' = "signal_unlock"
    /\ UNCHANGED <<interval, entry_count, signal_thread, mutex, now_rt,
                   hisVars, othVars, objVars>>

\* OSE_signal: pthread_mutex_unlock
OSE_signal_unlock ==
    /\ opc = "signal_unlock"
    /\ mutex' = MutexFree
    /\ opc' = "join"
    /\ UNCHANGED <<interval, entry_count, signal_thread, signaled, thr, now_rt,
                   hisVars, othVars, objVars>>

\* stop_signal_thread's return value: return 0, whatever pthread_join said
stop_signal_thread_rv(jerr) == 0

\* stop_signal_thread: pthread_join(self->signal_thread, 0)
pthread_join ==
    /\ opc = "join"
    /\ JoinReturns(thr[signal_thread].pc)
    /\ thr' = IF thr[signal_thread].pc = "exited"
              THEN [thr EXCEPT ![signal_thread] =
                       [NoThread EXCEPT !.kill_failed =
                                            thr[signal_thread].kill_failed]]
              ELSE thr
    /\ reaped' = (thr[signal_thread].pc = "exited")
    /\ opc' = "reset_lock"
    /\ UNCHANGED <<interval, entry_count, signal_thread, signaled, mutex, now_rt,
                   last_call, req_pc, sent, late_kill, ep, othVars, objVars>>

\* OSE_reset: pthread_mutex_lock
OSE_reset_lock ==
    /\ opc = "reset_lock"
    /\ ~mutex.held
    /\ mutex' = HeldBy(0)
    /\ opc' = "reset_clear"
    /\ UNCHANGED <<interval, entry_count, signal_thread, signaled, thr, now_rt,
                   hisVars, othVars, objVars>>

\* mutant: OSE_reset leaves the flag as it is
FlagAfterReset_Kept(flag) == flag

\* OSE_reset: ev->signaled = false
FlagAfterReset(flag) == FALSE

\* OSE_reset: ev->signaled = false; pthread_mutex_unlock
OSE_reset_clear ==
    /\ opc = "reset_clear"
    /\ signaled' = FlagAfterReset(signaled)
    /\ mutex' = MutexFree
    /\ opc' = "dec"
    /\ UNCHANGED <<interval, entry_count, signal_thread, thr, now_rt,
                   hisVars, othVars, objVars>>

\* PSC_exit after stop_signal_thread: if (self->entry_count > 0)
\* self->entry_count -= 1; Py_RETURN_NONE
PSC_exit_return ==
    /\ opc = "dec" /\ caller = "exit"
    /\ LET rv == stop_signal_thread_rv(join_err)
       IN  /\ entry_count' = IF rv = 0 /\ entry_count > 0
                              THEN entry_count - 1 ELSE entry_count
           /\ last_call' = [op |-> "exit", depth |-> entry_count,
                            ok |-> (rv = 0),
                            created |-> FALSE, stopped |-> reaped,
                            after |-> entry_count', tried |-> TRUE,
                            prev_failed |-> FailedCreate(last_call),
                            join_err |-> join_err,
                            workers |-> last_call.workers]
    /\ ep' = ExitEpisode(reaped)
    /\ reaped' = FALSE
    /\ join_err' = FALSE
    /\ caller' = "none"
    /\ opc' = "idle"
    /\ UNCHANGED <<interval, signal_thread, signaled, mutex, thr, now_rt, req_pc,
                   sent, late_kill, othVars, signal, last_init>>

\* stop_signal_thread with a pthread_join that fails: the call returns at
\* once with an error number, no thread is waited for, and the error number
\* is dropped.  Followed while no thread of an earlier failed join is left.
pthread_join_fails ==
    /\ opc = "join"
    /\ \A t \in Threads : t # signal_thread => ~Exists(t)
    /\ join_err' = TRUE
    /\ reaped' = FALSE
    /\ opc' = "reset_lock"
    /\ UNCHANGED <<interval, entry_count, signal_thread, signaled, mutex, thr,
                   now_rt, last_call, req_pc, sent, late_kill, ep, othVars,
                   caller, signal, last_init>>

\* __init__'s interval argument, a C double: not a number, an infinity, a
\* finite value beyond the range of time_t ("huge"), or a number h of
\* fractions of a nanosecond, UnitsPerNs to the nanosecond
UnitsPerNs == 2
UnitsPerS == UnitsPerNs * NS_PER_S
MaxIntervalArg == UnitsPerS * (MaxIntervalSec + 1) - 1
IntervalArgs ==
    [kind : {"nan", "inf", "ninf", "huge"}, h : {0}]
        \cup [kind : {"num"}, h : -1 .. MaxIntervalArg]
\* __init__'s signal argument, an int
SignalArgs == -1 .. MaxSignal + 1

\* sigaction(signal, 0, &dummy) == 0
sigaction_ok(sig) == sig \in 1 .. MaxSignal

\* mutant: zero and intervals below one nanosecond are accepted
IntervalAccepted_Zero(x) ==
    x.kind = "huge" \/ (x.kind = "num" /\ x.h >= 0)

\* neither !isfinite(interval) || interval <= 0, nor interval < 1e-9
IntervalAccepted(x) ==
    /\ x.kind \notin {"nan", "inf", "ninf"}
    /\ ~(x.kind = "num" /\ x.h <= 0)
    /\ ~(x.kind = "num" /\ x.h < UnitsPerNs)

\* what (time_t)floor(interval) and (unsigned long)floor(...) may store for a
\* value out of the integer type's range: the conversion is undefined
HugeStored == {[tv_sec |-> -1, tv_nsec |-> 0], ZeroTs,
               [tv_sec |-> MaxIntervalSec, tv_nsec |-> NS_PER_S - 1]}

\* interval_sec = (time_t)floor(interval);
\* interval_ns = (unsigned long)floor((interval - interval_sec) * 1e9)
IntervalStored(x) ==
    IF x.kind = "huge" THEN HugeStored
    ELSE {[tv_sec |-> x.h \div UnitsPerS,
           tv_nsec |-> (x.h - (x.h \div UnitsPerS) * UnitsPerS) \div UnitsPerNs]}

\* PSC_init on an object holding sig0 and ival0: the values it may return and
\* store; parsed: PyArg_ParseTupleAndKeywords accepted the arguments
PSC_init_results(sig0, ival0, parsed, x, sig) ==
    IF \/ sig0 # 0
       \/ ~parsed
       \/ ~sigaction_ok(sig)
       \/ ~IntervalAccepted(x)
    THEN {[rv |-> -1, signal |-> sig0, interval |-> ival0]}
    ELSE {[rv |-> 0, signal |-> sig, interval |-> iv] : iv \in IntervalStored(x)}

\* one call of __init__
PSC_init ==
    /\ opc = "idle"
    /\ \E parsed \in BOOLEAN, x \in IntervalArgs, sig \in SignalArgs :
          \E r \in PSC_init_results(signal, interval, parsed, x, sig) :
             /\ signal' = r.signal
             /\ interval' = r.interval
             /\ last_init' = [called |-> TRUE, parsed |-> parsed, sig |-> sig,
                              ival |-> x, rv |-> r.rv,
                              was_signal |-> signal, was_interval |-> interval]
    /\ UNCHANGED <<entry_count, signal_thread, signaled, mutex, thr, opc, now_rt,
                   hisVars, othVars, caller, join_err>>

\* mutant: the deallocation never stops the thread
DeallocStops_Never(count) == FALSE

\* PSC_dealloc: if (self->entry_count > 0)
DeallocStops(count) == count > 0

\* PSC_dealloc up to its first blocking point: the entry into
\* stop_signal_thread when the context is armed
PSC_dealloc ==
    /\ opc = "idle"
    /\ IF DeallocStops(entry_count)
       THEN /\ opc' = "signal_lock"
            /\ req_pc' = thr[signal_thread].pc
       ELSE /\ opc' = "dec"
            /\ UNCHANGED req_pc
    /\ caller' = "dealloc"
    /\ reaped' = FALSE
    /\ join_err' = FALSE
    /\ UNCHANGED <<interval, entry_count, signal_thread, signaled, mutex, thr,
                   now_rt, last_call, sent, late_kill, ep, othVars, signal,
                   last_init>>

\* PSC_dealloc after stop_signal_thread: self->entry_count = 0 (when it was
\* positive), then OSE_destroy: pthread_cond_destroy, pthread_mutex_destroy.
\* The object is gone: no method is called on it again.
PSC_dealloc_destroy ==
    /\ opc = "dec" /\ caller = "dealloc"
    /\ entry_count' = 0
    /\ last_call' = [op |-> "dealloc", depth |-> entry_count, ok |-> TRUE,
                     created |-> FALSE, stopped |-> reaped, after |-> 0,
                     tried |-> DeallocStops(entry_count),
                     prev_failed |-> FailedCreate(last_call),
                     join_err |-> join_err,
                     workers |-> last_call.workers]
    /\ opc' = "destroyed"
    /\ UNCHANGED <<interval, signal_thread, signaled, mutex, thr, now_rt, reaped,
                   req_pc, sent, late_kill, ep, othVars, objVars>>

\* periodic_signal_threadproc: pthread_sigmask, pthread_mutex_lock
ThreadLock(t) ==
    /\ thr[t].pc = "start"
    /\ ~mutex.held
    /\ mutex' = HeldBy(t)
    /\ thr' = [thr EXCEPT ![t].pc = "wait"]
    /\ UNCHANGED <<interval, entry_count, signal_thread, signaled, opc, now_rt,
                   hisVars, othVars, objVars>>

\* OSE_wait: the deadline, computed once from the clock and the interval
WaitBegin(t) ==
    /\ thr[t].pc = "wait"
    /\ \E deadline \in OSE_wait_deadline(RealtimeNow, interval) :
          thr' = [thr EXCEPT ![t].pc = "test",
                             ![t].stop_waiting_at = deadline,
                             ![t].began = now_rt]
    /\ UNCHANGED <<interval, entry_count, signal_thread, signaled, mutex, opc,
                   now_rt, hisVars, othVars, objVars>>

\* OSE_wait: while (!ev->signaled) pthread_cond_timedwait(...), which gives
\* up the mutex and blocks; with the flag set OSE_wait returns true and the
\* thread leaves its loop
WaitTest(t) ==
    /\ thr[t].pc = "test"
    /\ IF WaitOver(signaled)
       THEN /\ thr' = [thr EXCEPT ![t].pc = "unlock"]
            /\ mutex' = mutex
       ELSE /\ thr' = [thr EXCEPT ![t].pc = "blocked", ![t].woken = FALSE]
            /\ mutex' = MutexFree
    /\ UNCHANGED <<interval, entry_count, signal_thread, signaled, opc, now_rt,
                   hisVars, othVars, objVars>>

\* pthread_cond_timedwait is woken by the broadcast
BroadcastWake(t) ==
    /\ thr[t].pc = "blocked"
    /\ thr[t].woken
    /\ thr' = [thr EXCEPT ![t].pc = "relock", ![t].err = "ok"]
    /\ UNCHANGED <<interval, entry_count, signal_thread, signaled, mutex, opc,
                   now_rt, hisVars, othVars, objVars>>

\* pthread_cond_timedwait finds the absolute time reached: ETIMEDOUT
TimeoutWake(t) ==
    /\ thr[t].pc = "blocked"
    /\ DeadlinePassed(RealtimeNow, thr[t].stop_waiting_at)
    /\ thr' = [thr EXCEPT ![t].pc = "relock", ![t].err = "ETIMEDOUT"]
    /\ UNCHANGED <<interval, entry_count, signal_thread, signaled, mutex, opc,
                   now_rt, hisVars, othVars, objVars>>

\* pthread_cond_timedwait returns for no reason (0 or EINTR)
SpuriousWake(t) ==
    /\ thr[t].pc = "blocked"
    /\ thr' = [thr EXCEPT ![t].pc = "relock", ![t].err = "ok"]
    /\ UNCHANGED <<interval, entry_count, signal_thread, signaled, mutex, opc,
                   now_rt, hisVars, othVars, objVars>>

\* mutant: any return of pthread_cond_timedwait ends the wait as a timeout
AfterWake_NoLoop(err) == "kill"

\* if (err == ETIMEDOUT) return false; otherwise back to while (!ev->signaled)
AfterWake(err) == IF err = "ETIMEDOUT" THEN "kill" ELSE "test"

\* pthread_cond_timedwait takes the mutex again before it returns; on
\* ETIMEDOUT OSE_wait returns false, otherwise the loop tests the flag again
Relock(t) ==
    /\ thr[t].pc = "relock"
    /\ ~mutex.held
    /\ mutex' = HeldBy(t)
    /\ thr' = [thr EXCEPT ![t].pc = AfterWake(thr[t].err)]
    /\ UNCHANGED <<interval, entry_count, signal_thread, signaled, opc, now_rt,
                   hisVars, othVars, objVars>>

\* mutant: a failed kill is ignored and the loop goes on
AfterKill_Retry(failed) == "wait"

\* if (kill(self->pid, self->signal)) break;
AfterKill(failed) == IF failed THEN "unlock" ELSE "wait"

\* if (kill(self->pid, self->signal)) break;
Kill(t) ==
    /\ thr[t].pc = "kill"
    /\ \E failed \in BOOLEAN :
          /\ thr' = [thr EXCEPT ![t].pc = AfterKill(failed),
                                ![t].kill_failed = failed]
          /\ sent' = (sent \/ ~failed)
    /\ late_kill' = (late_kill \/ (opc = "idle" /\ entry_count = 0)
                               \/ opc = "destroyed")
    /\ UNCHANGED <<interval, entry_count, signal_thread, signaled, mutex, opc,
                   now_rt, last_call, reaped, req_pc, ep, othVars, objVars>>

\* pthread_mutex_unlock; return 0
ThreadUnlock(t) ==
    /\ thr[t].pc = "unlock"
    /\ mutex' = MutexFree
    /\ thr' = [thr EXCEPT ![t].pc = "exited"]
    /\ UNCHANGED <<interval, entry_count, signal_thread, signaled, opc, now_rt,
                   hisVars, othVars, objVars>>

\* the realtime clock advances
RtTick ==
    /\ now_rt < MaxNow
    /\ now_rt' = now_rt + 1
    /\ UNCHANGED <<interval, entry_count, signal_thread, signaled, mutex, thr,
                   opc, hisVars, othVars, objVars>>

(***************************************************************************)
(* Specifications                                                          *)
(***************************************************************************)
NextCheckOften == CheckSignalsOftenEnough \/ SignalBetweenCalls
InitCheckOften == IdleTime /\ IdleFactor /\ IdleFFT /\ IdleSignaler
SpecCheckOften == InitCheckOften /\ [][NextCheckOften]_vars

\* every CLOCK_REALTIME reading from the epoch on, and every delay PSC_init
\* stores from a double within time_t's range
InitDeadline ==
    /\ IdleCso /\ IdleFactor /\ IdleFFT /\ IdleSignaler
    /\ t_after = [tv_sec |-> 0, tv_nsec |-> 0]
    /\ t_before = [tv_sec |-> 0, tv_nsec |-> 0]
    /\ t_min = 0 /\ r_mul = -1 /\ r_cases = -1 /\ r_tsdal = -1
    /\ d_now \in [tv_sec : 0 .. Int64Max, tv_nsec : 0 .. (NS_PER_S - 1)]
    /\ d_delay \in [tv_sec : 0 .. Int64Max, tv_nsec : 0 .. (NS_PER_S - 1)]
                       \ {ZeroTs}
    /\ d_res = [tv_sec |-> 0, tv_nsec |-> 0]
    /\ d_done = FALSE
NextDeadline == CallDeadline
SpecDeadline == InitDeadline /\ [][NextDeadline]_vars

CsoStep(t) ==
    \/ CsoReadSec(t) \/ CsoCompare(t) \/ CsoWriteSec(t) \/ CsoWriteNsec(t)
    \/ CsoQuery(t)
NextCheckOftenRace == (\E t \in Callers : CsoStep(t)) \/ CsoTick
SpecCheckOftenRace == InitCheckOften /\ [][NextCheckOftenRace]_vars

NextTdal == CallMul \/ CallCases \/ CallTimespecDifferenceAtLeast
InitTdal == InitTime /\ IdleFactor /\ IdleFFT /\ IdleSignaler
SpecTdal == InitTdal /\ [][NextTdal]_vars

NextFactor == CallAlloc
InitAlloc == IdleTime /\ InitFactor /\ IdleFFT /\ IdleSignaler
SpecFactor == InitAlloc /\ [][NextFactor]_vars

\* kiss_fft called directly, with a state made by kiss_fft_alloc for a
\* power of two and with should_stop either NULL or a callback whose check
\* function always returns zero
InitKissFft ==
    /\ IdleTime /\ IdleFactor /\ IdleSignaler
    /\ policy = "never"
    /\ should_stop \in {"NULL", "set"}
    /\ release_gil = FALSE
    /\ ns_between_checks = 0
    /\ len_in \in {n \in 1 .. MaxLen : kiss_fft_alloc(n, TRUE).st = "state"}
    /\ len_out = len_in
    /\ malloc_ok = TRUE
    /\ mpc = "fft"
    /\ clock = 0
    /\ coarse = 0
    /\ pending \in BOOLEAN
    /\ sigs = pending
    /\ gil = TRUE
    /\ blocked = FALSE
    /\ prev = FALSE
    /\ start_ns = 0
    /\ stop_ns = 0
    /\ check_count = 0
    /\ ns_last_check = 0
    /\ factors = kiss_fft_alloc(len_in, TRUE).factors
    /\ stack \in {<<NewFrame(1, 0, 0, 1, pm)>> : pm \in FactorRead(1)}
    /\ fft_rv = 0
    /\ interrupted = 0
    /\ result = "none"
    /\ out_written = FALSE
    /\ corrupt = FALSE
    /\ hq = <<>>
    /\ nq = 0
    /\ ninv = 0
    /\ abort_v = 0
    /\ work_after_abort = FALSE
    /\ since_check = 0
NextKissFft ==
    \/ KfLeaf \/ KfRecurse \/ KfChildReturn \/ KfCheck1 \/ KfCombine \/ KfCheck2
    \/ KfCheckNull \/ KfFinish
    \/ Tick \/ SignalArrives
SpecKissFft == InitKissFft /\ [][NextKissFft]_vars

Next ==
    \/ GetBuffers \/ StartTiming \/ Alloc \/ FirstCheck
    \/ KfLeaf \/ KfRecurse \/ KfChildReturn \/ KfCheck1 \/ KfCombine \/ KfCheck2
    \/ KfFinish \/ Finish
    \/ Tick \/ CoarseTick \/ SignalArrives
Init == IdleTime /\ IdleFactor /\ InitFFT /\ IdleSignaler
Spec == Init /\ [][Next]_vars

OwnerStep ==
    \/ OSE_signal_set \/ OSE_signal_unlock \/ pthread_join
    \/ OSE_reset_lock \/ OSE_reset_clear \/ PSC_exit_return
ThreadStep(t) ==
    \/ ThreadLock(t) \/ WaitBegin(t) \/ WaitTest(t)
    \/ BroadcastWake(t) \/ TimeoutWake(t) \/ Relock(t)
    \/ Kill(t) \/ ThreadUnlock(t)
NextSignaler ==
    \/ PSC_enter \/ PSC_exit \/ OSE_signal_lock \/ OwnerStep
    \/ \E t \in Threads : ThreadStep(t) \/ SpuriousWake(t)
    \/ RtTick
InitPSC == IdleTime /\ IdleFactor /\ IdleFFT /\ InitSignaler
SpecSignaler == InitPSC /\ [][NextSignaler]_vars

\* fair scheduling: a thread that can take a step does so; a thread waiting
\* for the stop mutex gets it if the mutex keeps becoming free; the calls of
\* __enter__ and __exit__, the passing of time and spurious wakeups are under
\* no obligation to happen
FairSignaler ==
    /\ WF_vars(OwnerStep)
    /\ SF_vars(OSE_signal_lock)
    /\ \A t \in Threads : WF_vars(ThreadStep(t))
SpecSignalerFair == InitPSC /\ [][NextSignaler]_vars /\ FairSignaler

\* the context's whole life: the methods, the signal threads and the
\* deallocation, which may come at any depth
NextLifetime == NextSignaler \/ PSC_dealloc \/ PSC_dealloc_destroy
SpecLifetime == InitPSC /\ [][NextLifetime]_vars

\* a context fresh from PSC_new, and the calls of __init__ made on it
InitNew ==
    /\ IdleTime /\ IdleFactor /\ IdleFFT
    /\ interval = ZeroTs
    /\ entry_count = 0
    /\ signal_thread = 1
    /\ signaled = FALSE
    /\ mutex = MutexFree
    /\ thr = [t \in Threads |-> NoThread]
    /\ opc = "idle"
    /\ now_rt = 0
    /\ last_call = NoCall
    /\ reaped = FALSE
    /\ req_pc = "none"
    /\ sent = FALSE
    /\ late_kill = FALSE
    /\ ep = NoEpisode
    /\ caller = "none"
    /\ join_err = FALSE
    /\ signal = 0
    /\ last_init = NoInit
NextInit == PSC_init
SpecInit == InitNew /\ [][NextInit]_vars

\* the context on a host whose pthread_join may fail
NextFaults == NextSignaler \/ pthread_join_fails
InitFaults ==
    /\ IdleTime /\ IdleFactor /\ IdleFFT /\ InitSignaler
    /\ interval = [tv_sec |-> 0, tv_nsec |-> 1]
SpecSignalerFaults == InitFaults /\ [][NextFaults]_vars

(***************************************************************************)
(* Properties of the timespec comparison (SpecTdal)                        *)
(***************************************************************************)
\* the difference after - before in nanoseconds, as a mathematical integer
DiffNs == TotalNs(t_after) - TotalNs(t_before)

\* C8 as stated: for all timespec pairs with sub-second fields in range and
\* every min_ns below one second, the subtraction implementation and the
\* three-case implementation return the same truth value.
C8_MulCasesAgree ==
    (r_mul # -1 /\ r_cases # -1) => r_mul = r_cases

\* C8 (amended): the two implementations return the same truth value for all
\* such inputs on which the subtraction implementation's 64-bit arithmetic
\* (tv_sec * 10^9 + tv_nsec for both arguments, and their difference) does
\* not overflow.
C8_MulCasesAgreeWhereDefined ==
    (r_mul # -1 /\ r_cases # -1 /\ MulDefined(t_after, t_before))
        => r_mul = r_cases

\* both were called on consecutive seconds less than min_ns apart, and both
\* said no
C8_Witness ==
    /\ r_mul = 0
    /\ r_cases = 0
    /\ t_after.tv_sec = t_before.tv_sec + 1
    /\ MulDefined(t_after, t_before)

\* C9: the three-case timespec_difference_at_least returns true exactly when
\* after - before is at least min_ns or is negative, and false exactly when
\* 0 <= after - before < min_ns, for all timespecs with sub-second fields in
\* range and all min_ns below one second.
C9_ThreeCaseExact ==
    r_tsdal # -1 => (r_tsdal = 1 <=> (DiffNs >= t_min \/ DiffNs < 0))

\* away from before.tv_sec = TIME_MAX the three cases are exact
C9_ExactBelowTimeMax ==
    (r_tsdal # -1 /\ t_before.tv_sec < Int64Max)
        => (r_tsdal = 1 <=> (DiffNs >= t_min \/ DiffNs < 0))

(***************************************************************************)
(* Properties of CheckSignalsOftenEnough (SpecCheckOften)                  *)
(***************************************************************************)
\* a call has been made
Called == cso_rv # 1
\* the reading of the latest call minus the last-check instant it found
SinceLastCheck == TotalNs(cso_now) - TotalNs(cso_prev)

\* C26: a call of CheckSignalsOftenEnough consults the host exactly when its
\* coarse clock reading is at least 1 ms after the stored last-check instant
\* or precedes it; last_check becomes the reading exactly on those calls, and
\* a call that does not consult the host returns 0 and leaves last_check as
\* it was.
C26_ConsultsWhenDue ==
    Called =>
        /\ cso_asked <=> (SinceLastCheck >= ONE_MS_IN_NS \/ SinceLastCheck < 0)
        /\ last_check = IF cso_asked THEN cso_now ELSE cso_prev
        /\ ~cso_asked => cso_rv = 0

\* after a call that consulted the host and had a pending signal reported,
\* a call less than 1 ms later in the following second returned 0 and kept
\* last_check, with a new signal still pending
C26_Witness ==
    /\ Called /\ ~cso_asked /\ pending
    /\ cso_now.tv_sec = cso_prev.tv_sec + 1 /\ SinceLastCheck = ONE_MS_IN_NS - 1
    /\ last_check = cso_prev /\ last_check.tv_sec > 0

\* a reading that precedes last_check consulted the host and moved last_check
\* back to it
C26_WitnessBackward ==
    /\ Called /\ cso_asked /\ SinceLastCheck < 0 /\ last_check = cso_now
    /\ cso_rv = -1

(***************************************************************************)
(* Properties of concurrent CheckSignalsOftenEnough calls                  *)
(* (SpecCheckOftenRace)                                                    *)
(***************************************************************************)
\* no two callers have asked the host on readings less than 1 ms apart
OneConsultPerWindow ==
    \A t, u \in Callers :
        (t # u /\ cso_thr[t].asked >= 0 /\ cso_thr[u].asked >= 0) =>
            \/ cso_thr[t].asked - cso_thr[u].asked >= ONE_MS_IN_NS
            \/ cso_thr[u].asked - cso_thr[t].asked >= ONE_MS_IN_NS

\* while no store of last_check is half done, both its fields come from the
\* reading of one call (or are still the initial zeros)
LastCheckUntorn ==
    (\A t \in Callers : cso_thr[t].pc # "write_nsec") =>
        /\ lc_src.sec = lc_src.nsec
        /\ lc_src.sec >= 0 => last_check = Reading(lc_src.sec)

\* C34: when two threads call CheckSignalsOftenEnough concurrently the
\* read, compare and update of last_check behave atomically: no two calls
\* ask the host within 1 ms of each other, and last_check always holds a
\* value one call read from the clock, never a mix of two readings.
C34_RaceFree ==
    OneConsultPerWindow /\ LastCheckUntorn

\* both callers asked the host on the same clock reading
C34_Witness ==
    /\ cso_thr[1].asked >= 0 /\ cso_thr[1].asked = cso_thr[2].asked
    /\ cso_thr[1].pc = "idle" /\ cso_thr[2].pc = "idle"

\* last_check holds the seconds of one reading and the nanoseconds of
\* another, an instant no call read, with both calls finished
C34_WitnessTorn ==
    /\ \A t \in Callers : cso_thr[t].pc = "idle"
    /\ lc_src.sec # lc_src.nsec
    /\ last_check # Reading(lc_src.sec) /\ last_check # Reading(lc_src.nsec)
    /\ TotalNs(last_check) > cso_clock

(***************************************************************************)
(* Properties of the factorisation (SpecFactor)                            *)
(***************************************************************************)
IsPowerOfTwo(n) == \E k \in 0 .. (2 * MAXFACTORS - 1) : n = Pow2(k)

RECURSIVE RadixProduct(_)
RadixProduct(facbuf) ==
    IF facbuf = <<>> THEN 1 ELSE Head(facbuf).radix * RadixProduct(Tail(facbuf))

\* C10: for every power of two N with 1 <= N <= 2^31 kf_factor succeeds, the
\* product of the radices it wrote is N and they fit the factor buffer; for
\* every other N >= 1 it fails and kiss_fft_alloc returns its
\* not-a-power-of-two value (once its malloc has succeeded).
C10_FactorPowersOfTwo ==
    (f_res # NoAlloc /\ f_malloc) =>
        IF IsPowerOfTwo(f_n)
        THEN /\ f_res.st = "state"
             /\ kf_factor(f_n).ok
             /\ f_res.factors = kf_factor(f_n).facbuf
             /\ RadixProduct(f_res.factors) = f_n
             /\ Len(f_res.factors) <= MAXFACTORS
        ELSE /\ f_res.st = "minus1"
             /\ ~kf_factor(f_n).ok

\* the stride of the entry before entry i, the sample count for the first
StrideBefore(facbuf, n, i) == IF i = 1 THEN n ELSE facbuf[i - 1].stride

\* radix-4 entries first, then at most one radix-2 entry, which is the last
FoursThenOneTwo(facbuf) ==
    \A i \in 1 .. Len(facbuf) :
        \/ facbuf[i].radix = 4
        \/ facbuf[i].radix = 2 /\ i = Len(facbuf)

\* C27: for every power of two N from 2 to 2^31 the entries kf_factor writes
\* are radix-4 entries followed by at most one radix-2 entry; each stride is
\* the previous stride (N for the first) divided by the entry's radix, the
\* strides strictly decrease and the last is 1, so kf_work reaches its
\* m == 1 branch after as many levels as there are entries.
C27_FactorShape ==
    (f_res # NoAlloc /\ f_malloc /\ IsPowerOfTwo(f_n)
       /\ f_n >= 2 /\ f_n <= KISS_FFT_MAX_SAMPLES) =>
        LET fb == f_res.factors
        IN  /\ f_res.st = "state"
            /\ fb = kf_factor(f_n).facbuf
            /\ Len(fb) >= 1
            /\ FoursThenOneTwo(fb)
            /\ \A i \in 1 .. Len(fb) :
                  /\ fb[i].stride * fb[i].radix = StrideBefore(fb, f_n, i)
                  /\ fb[i].stride < StrideBefore(fb, f_n, i)
            /\ fb[Len(fb)].stride = 1
            /\ LeafLevel(fb) = Len(fb)

\* eight samples: one radix-4 entry of stride 2, then the radix-2 entry of
\* stride 1, and the leaf two levels down
C27_Witness ==
    /\ f_n = 8 /\ f_res.st = "state"
    /\ f_res.factors = <<[radix |-> 4, stride |-> 2], [radix |-> 2, stride |-> 1]>>
    /\ LeafLevel(f_res.factors) = 2

\* the largest size was factored and fills the factor buffer
C10_Witness ==
    /\ f_res.st = "state"
    /\ f_n = KISS_FFT_MAX_SAMPLES
    /\ Len(f_res.factors) = MAXFACTORS

(***************************************************************************)
(* Properties of the transform call (Spec)                                 *)
(***************************************************************************)
\* C1: once a check made inside kiss_fft/kf_work has returned a nonzero value
\* v, nothing but returns happens at any recursion level (no combine, no leaf
\* copy, no further recursive call, no further check), and kiss_fft returns
\* exactly v.
C1_AbortPropagates ==
    /\ ~work_after_abort
    /\ (abort_v # 0 /\ mpc \in {"post", "done"}) => fft_rv = abort_v

\* under the every-time policy the second check of a call on 8 samples is the
\* one of the first leaf, two levels down; it said stop and kiss_fft has
\* returned through both levels
C1_Witness ==
    /\ policy = "simple"
    /\ len_in = 8
    /\ check_count = 2
    /\ abort_v # 0
    /\ mpc = "post"
    /\ fft_rv = abort_v

\* the stage invocation at stack position i will do nothing more: it has
\* returned, or the process was terminated inside it
StageOver(i) ==
    \/ stack[i].pc = "ret"
    \/ mpc = "aborted" /\ i = Len(stack)

\* what C2 says of one stage invocation fr, over at position i or not
ChecksAroundCombine(i) ==
    LET fr == stack[i]
    IN  /\ fr.c1 <= 1 /\ fr.c2 <= 1 /\ fr.combined <= 1
        \* the first query comes after the leaf copy or all p sub-recursions
        /\ fr.c1 = 1 => (fr.copied = 1 \/ fr.kids = fr.p)
        \* the combine comes after a first query that did not signal abort
        /\ fr.combined = 1 => (fr.c1 = 1 /\ fr.rv1 = 0)
        \* the second query comes after the combine
        /\ fr.c2 = 1 => fr.combined = 1
        /\ (StageOver(i) /\ ~fr.child_aborted) =>
              /\ fr.c1 = 1
              /\ fr.rv1 = 0 => (fr.combined = 1 /\ fr.c2 = 1)

\* C2: every stage invocation that no sub-stage aborted queries the policy
\* exactly once after its sub-recursions (or leaf copy) and before its
\* combine, and exactly once more after its combine; after a first query that
\* signals abort the combine is not performed; between two consecutive check
\* points there is at most one combine pass or leaf copy.
C2_ChecksAroundCombine ==
    /\ \A i \in 1 .. Len(stack) : ChecksAroundCombine(i)
    /\ since_check <= 1

\* the same holds of every call on two samples or more
C2_FromTwoSamples ==
    len_in >= 2 => C2_ChecksAroundCombine

\* of the last two host queries those the policy made
PolicyQueries == SelectSeq(hq, LAMBDA q : q.by = "policy")

\* in the sequence qs of consecutive queries each is at least
\* ns_between_checks after the one before it, and the first query of the call
\* that long after the start instant
Spaced(qs) ==
    \A i \in 1 .. Len(qs) :
        /\ qs[i].n = 1 => qs[i].at - start_ns >= ns_between_checks
        /\ i > 1 => qs[i].at - qs[i - 1].at >= ns_between_checks

RateLimitedCall == policy = "timed" /\ ns_between_checks > 0

\* C3 as stated: in a RateLimited call with interval T > 0 the host is
\* queried only at least T after the previous host query (the start instant
\* for the first), so any two consecutive host queries are at least T apart.
C3_AllQueriesSpaced ==
    (RateLimitedCall /\ len_in >= 2) => Spaced(hq)

\* C3 (amended): in a RateLimited call with interval T > 0 the policy queries
\* the host only at invocations whose clock reading is at least T after the
\* policy's previous query (the start instant for its first), so any two
\* consecutive queries of the policy are at least T apart, and the check
\* counter never decreases.  The query maybe_interruptible makes itself after
\* an uninterrupted transform is not rate limited.
C3_PolicyQueriesSpaced ==
    [][RateLimitedCall => /\ check_count' >= check_count
                          /\ Spaced(PolicyQueries)']_vars

\* kiss_fft has run to completion on 8 samples; of the policy's eleven
\* invocations two asked the host, the second exactly one interval after the
\* first
C3_Witness ==
    /\ RateLimitedCall
    /\ len_in = 8
    /\ mpc = "post" /\ interrupted = 0
    /\ check_count = 2
    /\ Len(PolicyQueries) = 2
    /\ PolicyQueries[2].at = PolicyQueries[1].at + ns_between_checks

NeverCall == policy = "never"

\* the call went through kiss_fft and came back from maybe_interruptible
Returned == mpc = "done" /\ result \in {"ok", "Interrupted"}

PolicyAsked ==
    nq - (IF hq # <<>> /\ hq[Len(hq)].by = "final" THEN 1 ELSE 0)

RECURSIVE StageCount(_)
StageCount(facs) ==
    IF Len(facs) <= 1 THEN Len(facs)
    ELSE 1 + facs[1].radix * StageCount(Tail(facs))

\* C13 as stated: a call on eight samples with the Never policy and no signal
\* pending at any time completes, and the check count it reports is twice the
\* number of stages of the factorisation of 8 (counted as factors or as stage
\* invocations).
C13_NeverCountsTwicePerStage ==
    (NeverCall /\ len_in = 8 /\ mpc = "done" /\ result # "MemoryError"
     /\ len_out = len_in /\ ~sigs)
        => /\ result = "ok"
           /\ \/ check_count = 2 * Len(factors)
              \/ check_count = 2 * StageCount(factors)

\* C13 (amended): a call on eight samples with the Never policy and no signal
\* pending at any time completes with the ok outcome and reports a check
\* count of 0, although the policy was invoked once before the transform and
\* twice in each of the five stage invocations.
C13_NeverCountsNothing ==
    (NeverCall /\ len_in = 8 /\ mpc = "done" /\ result # "MemoryError"
     /\ len_out = len_in /\ ~sigs)
        => /\ result = "ok" /\ interrupted = 0
           /\ check_count = 0
           /\ Len(factors) = 2 /\ StageCount(factors) = 5
           /\ ninv = 1 + 2 * StageCount(factors)

\* such a call has returned
C13_Witness ==
    /\ NeverCall /\ len_in = 8 /\ len_out = 8 /\ mpc = "done" /\ ~sigs
    /\ result = "ok" /\ out_written /\ check_count = 0

\* r1 * ... * rk for the first k radices of facs
RECURSIVE RadixPrefix(_, _)
RadixPrefix(facs, k) ==
    IF k = 0 THEN 1 ELSE facs[k].radix * RadixPrefix(facs, k - 1)

\* 1 + r1 + r1*r2 + ... + r1*...*r(k-1), summed up to the term of n radices
RECURSIVE StageSeries(_, _)
StageSeries(facs, n) ==
    IF n < 0 THEN 0 ELSE RadixPrefix(facs, n) + StageSeries(facs, n - 1)

\* the call ran the whole transform and no check of the policy stopped it
RanUnstopped ==
    /\ Returned /\ len_in >= 2 /\ out_written
    /\ abort_v = 0 /\ fft_rv = 0

\* C31: in a call on N >= 2 samples whose policy never signals abort, the
\* policy is invoked 1 + 2*S times: once before kiss_fft and twice in each of
\* the S = 1 + r1 + r1*r2 + ... + r1*...*r(k-1) invocations of kf_work; with
\* the Always policy the reported check count is that number, 11 for N = 8.
C31_InvocationCount ==
    RanUnstopped =>
        LET S == StageSeries(factors, Len(factors) - 1)
        IN  /\ Len(factors) >= 1
            /\ S = StageCount(factors)
            /\ ninv = 1 + 2 * S
            /\ policy = "simple" => check_count = 1 + 2 * S
            /\ (policy = "simple" /\ len_in = 8) => check_count = 11

\* an Always call on eight samples that held the GIL throughout completed
\* with eleven checks
C31_Witness ==
    /\ RanUnstopped /\ policy = "simple" /\ ~release_gil /\ len_in = 8
    /\ result = "ok" /\ check_count = 11 /\ ninv = 11 /\ ~sigs

\* the outcomes of a call that got past maybe_interruptible_get_buffers
PastValidation == {"ok", "Interrupted", "MemoryError", "ValueError_not_pow2"}

\* C32: on every exit path of a call that got past the buffer validation
\* (completed, interrupted, out of memory, not a power of two) the signal
\* mask at return is the mask at entry: SIGINT is blocked again if it was
\* blocked when the call began.
C32_MaskRestored ==
    (mpc = "done" /\ result \in PastValidation) => blocked = prev

\* the paths through kiss_fft restore the mask
C32_MaskRestoredAfterTransform ==
    (mpc = "done" /\ result \in {"ok", "Interrupted"}) => blocked = prev

\* a call that began with SIGINT blocked and was given six samples has
\* raised its ValueError and left SIGINT unblocked
C32_Witness ==
    /\ mpc = "done" /\ result = "ValueError_not_pow2" /\ len_in = 6
    /\ prev /\ ~blocked

\* every kf_work invocation in progress took its radix and stride from an
\* entry kf_factor wrote, of radix 2 or 4; nothing was read or written out of
\* bounds and the process has not ended in abort() or a fault
OnlyWrittenFactorsRead ==
    /\ \A i \in 1 .. Len(stack) :
          /\ stack[i].fac <= Len(factors)
          /\ stack[i].p \in {2, 4}
    /\ mpc \notin Dead
    /\ ~corrupt

\* the sample count is one kiss_fft_alloc accepts
AcceptedSize ==
    /\ len_in = len_out /\ len_in >= 1 /\ len_in <= KISS_FFT_MAX_SAMPLES
    /\ IsPowerOfTwo(len_in)

\* C33: for every N kiss_fft_alloc accepts, N = 1 included, every factor
\* entry kf_work reads was written by kf_factor for this call and has radix 2
\* or 4, so the abort() of the combine switch is not reached, and a transform
\* of one sample completes.
C33_OnlyWrittenFactorsRead ==
    AcceptedSize => OnlyWrittenFactorsRead

\* the same holds from two samples on
C33_FromTwoSamples ==
    (AcceptedSize /\ len_in >= 2) => OnlyWrittenFactorsRead

\* a call on one sample copied the sample and then ended in abort()
C33_Witness ==
    /\ len_in = 1 /\ len_out = 1 /\ factors = <<>>
    /\ mpc = "aborted" /\ out_written /\ Top.fac = 1 /\ Top.p = 1

\* nanoseconds since the start instant, and whether the interval has passed
Elapsed == clock - start_ns
Due == Elapsed >= ns_between_checks

\* a step that invokes the policy
Invocation == ninv' = ninv + 1

\* the first invocation of a RateLimited policy that reads a clock value at
\* least T after the start instant asks the host, and when the host reports a
\* signal the invocation returns nonzero: maybe_interruptible is interrupted
\* before kiss_fft, or the transform is aborted; an earlier invocation does
\* not ask
AbortAtFirstDue ==
    (RateLimitedCall /\ Invocation /\ check_count = 0) =>
        IF Due
        THEN /\ check_count' = 1
             /\ ~pending'
             /\ pending => IF mpc = "check0"
                           THEN interrupted' = 1 /\ mpc' = "post"
                           ELSE abort_v' # 0
        ELSE check_count' = 0 /\ pending' = pending /\ nq' = nq

\* between two invocations at most one combine pass or leaf copy is done,
\* nothing is done after the aborting invocation, the call then returns
\* Interrupted, and the check counter is bounded by the elapsed time
RateLimitedBounds ==
    RateLimitedCall =>
        /\ since_check <= 1
        /\ ~work_after_abort
        /\ (mpc = "done" /\ (abort_v # 0 \/ interrupted # 0))
              => result = "Interrupted"
        /\ check_count <= (Elapsed \div ns_between_checks) + 1

\* C14: in a RateLimited call with interval T > 0 whose host reports a
\* pending signal whenever asked, the call is interrupted at the first policy
\* invocation that reads a clock value at least T after the start instant, so
\* at most one combine pass or leaf copy is executed after T has elapsed; and
\* at every moment of a RateLimited call the check counter is at most
\* floor(elapsed / T) + 1.
C14_AbortWithinOneStep ==
    [][AbortAtFirstDue]_vars /\ []RateLimitedBounds

\* a RateLimited call on eight samples whose first invocations came too
\* early to ask, and whose first query, at least T after the start, found a
\* signal and aborted the transform
C14_Witness ==
    /\ RateLimitedCall /\ len_in = 8 /\ mpc = "done"
    /\ result = "Interrupted" /\ abort_v # 0 /\ out_written
    /\ check_count = 1 /\ ninv >= 3
    /\ nq = 1 /\ hq[1].at - start_ns >= ns_between_checks

ConfigErrors == {"ValueError_same_size", "ValueError_not_enough",
                 "ValueError_too_many", "ValueError_not_pow2"}

\* C15: every configuration error of a call (input and output of different
\* sizes, zero samples, more than KISS_FFT_MAX_SAMPLES samples, a sample count
\* in range that is not a power of two) ends the call with an error, and when
\* the error is raised nothing has been written to the output buffer and the
\* policy has not been invoked, so the host has not been asked either.
C15_ConfigErrorsBeforeWork ==
    /\ mpc = "done" =>
          /\ len_in # len_out => result = "ValueError_same_size"
          /\ (len_in = len_out /\ len_in = 0)
                => result = "ValueError_not_enough"
          /\ (len_in = len_out /\ len_in > KISS_FFT_MAX_SAMPLES)
                => result = "ValueError_too_many"
          /\ (len_in = len_out /\ len_in \in 1 .. KISS_FFT_MAX_SAMPLES
               /\ ~IsPowerOfTwo(len_in))
                => result \in {"ValueError_not_pow2", "MemoryError"}
    /\ result \in (ConfigErrors \cup {"MemoryError"}) =>
          /\ mpc = "done"
          /\ ~out_written /\ ~corrupt
          /\ ninv = 0 /\ nq = 0 /\ check_count = 0

\* a call on three samples was refused as not a power of two while a signal
\* was pending
C15_Witness ==
    /\ len_in = 3 /\ len_out = 3 /\ mpc = "done"
    /\ result = "ValueError_not_pow2" /\ pending

\* C21: in a call with the Never policy (fft_uninterruptible) the check
\* counter, which is what the result tuple and the Interrupted exception
\* report, is zero at every moment, for every sample count and whether the
\* call completes, is interrupted or fails.
C21_NeverCountIsZero ==
    NeverCall => check_count = 0

\* a Never call on four samples invoked the policy throughout the transform,
\* was reported as Interrupted, and its count is zero
C21_Witness ==
    /\ NeverCall /\ len_in = 4 /\ mpc = "done"
    /\ result = "Interrupted" /\ ninv = 3 /\ check_count = 0

\* the GIL at every point of a call: held at every host query; held
\* throughout when release_gil is clear; with release_gil set, released
\* exactly while kiss_fft runs (a process that died inside kiss_fft holds
\* nothing); held, as at entry, when the call has returned
GilDiscipline ==
    /\ \A i \in 1 .. Len(hq) : hq[i].gil
    /\ ~release_gil => gil
    /\ release_gil => /\ mpc = "fft" => ~gil
                      /\ mpc \notin ({"fft"} \cup Dead) => gil
    /\ mpc = "done" => gil

\* a host query made inside kiss_fft leaves the GIL as it found it (the
\* query before kiss_fft is followed by Py_BEGIN_ALLOW_THREADS)
QueryKeepsGil == (mpc = "fft" /\ nq' = nq + 1) => gil' = gil

\* C24: every PyErr_CheckSignals of a transform call is made with the GIL
\* held; with release_gil set the GIL is not held while kiss_fft's leaf copies
\* and combines run and is taken and given back around each query; and the
\* caller holds the GIL, as at entry, when the call returns, whether it
\* completed, was interrupted or raised an error.
C24_QueriesHoldGil ==
    []GilDiscipline /\ [][QueryKeepsGil]_vars

\* a call with release_gil on eight samples queried the host inside kiss_fft
\* and then once more after it, and has returned
C24_Witness ==
    /\ release_gil /\ policy = "simple" /\ len_in = 8 /\ mpc = "done"
    /\ result = "ok" /\ nq = 12 /\ gil
    /\ hq[1].by = "policy" /\ hq[2].by = "final"

\* the step from the end of kiss_fft to the return of maybe_interruptible
Returning == mpc = "post" /\ mpc' = "done"

\* on that step, a transform that was not stopped is followed by exactly one
\* more host query, which is not counted and which decides the outcome; a
\* transform that was stopped is followed by none
FinalQueryDecides ==
    Returning =>
        /\ check_count' = check_count
        /\ IF interrupted = 0
           THEN /\ nq' = nq + 1
                /\ hq'[Len(hq')].by = "final" /\ hq'[Len(hq')].at = clock
                /\ ~pending'
                /\ result' = IF pending THEN "Interrupted" ELSE "ok"
           ELSE /\ nq' = nq /\ hq' = hq /\ pending' = pending
                /\ result' = "Interrupted"

\* C25: when kiss_fft has run to completion without the policy stopping it,
\* maybe_interruptible asks the host once more, whatever the policy and the
\* time since the last query; a signal pending then makes the call's outcome
\* Interrupted instead of the result tuple, and the query leaves the check
\* counter as it was.
C25_FinalQueryUnconditional ==
    [][FinalQueryDecides]_vars

\* a RateLimited call on eight samples whose transform completed after one
\* counted query was reported as Interrupted by the final query, made less
\* than the interval after that query
C25_Witness ==
    /\ RateLimitedCall /\ len_in = 8 /\ mpc = "done"
    /\ result = "Interrupted" /\ fft_rv = 0 /\ abort_v = 0
    /\ check_count = 1 /\ nq = 2
    /\ hq[2].by = "final" /\ hq[2].at - hq[1].at < ns_between_checks

(***************************************************************************)
(* Properties of kiss_fft called directly (SpecKissFft)                    *)
(***************************************************************************)
\* kiss_fft has returned to its caller with the value 0
Completed == mpc = "post" /\ fft_rv = 0 /\ stack = <<>>

\* C16: kiss_fft called with should_stop = NULL behaves like kiss_fft called
\* with a check function that always returns zero: the transform is not
\* cut short, and when kiss_fft is over it has returned 0 (transforms of two
\* samples or more).
C16_NullLikeZeroCheck ==
    (should_stop = "NULL" /\ len_in >= 2) =>
        /\ mpc \notin Dead
        /\ mpc # "fft" => Completed

\* with a check function that always returns zero the transform of two
\* samples or more is not cut short and returns 0
C16_ZeroCheckCompletes ==
    (should_stop = "set" /\ len_in >= 2) =>
        /\ mpc \notin Dead
        /\ mpc # "fft" => Completed

\* kiss_fft called with NULL on eight samples has copied a leaf and faulted
\* at the first check
C16_Witness ==
    /\ should_stop = "NULL" /\ len_in = 8 /\ mpc = "crashed"
    /\ out_written /\ ninv = 0

(***************************************************************************)
(* Properties of the periodic signal context (SpecSignaler)                *)
(***************************************************************************)
NoWorker == \A t \in Threads : ~Exists(t)

\* the last call to return was an __exit__ made at the given depth
ExitedFrom(depth) ==
    opc = "idle" /\ last_call.op = "exit" /\ last_call.depth = depth

\* C4: in every interleaving, once an __exit__ that took the depth from 1 to
\* 0 has returned, the signal thread has terminated and been joined, and no
\* kill is issued while the context stays at depth 0.
C4_NoWorkerAfterDisarm ==
    /\ ExitedFrom(1) => (entry_count = 0 /\ NoWorker)
    /\ ~late_kill

\* such an __exit__ has returned after the thread had sent a signal
C4_Witness ==
    /\ ExitedFrom(1)
    /\ last_call.stopped
    /\ sent
    /\ NoWorker

\* C5: under fair scheduling every __exit__ at depth 1 returns, wherever the
\* signal thread was when the stop was requested.
C5_DisarmReturns ==
    (opc # "idle") ~> (opc = "idle")

\* an __exit__ returned whose stop request came while the thread held the
\* mutex and was about to send a signal
C5_Witness ==
    /\ ExitedFrom(1)
    /\ last_call.stopped
    /\ req_pc = "kill"

\* C6: k calls of __enter__ that return the context, followed by k calls of
\* __exit__, on an idle context leave it idle (depth 0, no thread, stop flag
\* clear), with exactly one thread created and exactly one stopped and
\* joined.
C6_ArmDisarmIdempotent ==
    (opc = "idle" /\ ep.pat = "disarming" /\ ep.disarms = ep.arms) =>
        /\ entry_count = 0
        /\ NoWorker
        /\ ~signaled
        /\ ~mutex.held
        /\ ep.creates = 1
        /\ ep.joins = 1

\* the deepest nesting there is, unwound
C6_Witness ==
    /\ opc = "idle"
    /\ ep.pat = "disarming"
    /\ ep.arms = UINT_MAX
    /\ ep.disarms = UINT_MAX
    /\ entry_count = 0

\* C7: a thread is created exactly by the __enter__ calls made at depth 0
\* (that do not fail) and is stopped and joined exactly by the __exit__ calls
\* made at depth 1; every other call only moves the depth by one, an __exit__
\* at depth 0 changes nothing; at most one signal thread exists at any time
\* and the depth never underflows.
C7_WorkerOnTransitionsOnly ==
    /\ entry_count \in 0 .. UINT_MAX
    /\ Cardinality({t \in Threads : Exists(t)}) <= 1
    /\ last_call.op = "enter" =>
          /\ last_call.created <=> (last_call.depth = 0 /\ last_call.ok)
          /\ ~last_call.stopped
          /\ last_call.after = last_call.depth + (IF last_call.ok THEN 1 ELSE 0)
          /\ last_call.ok <=> ~(\/ last_call.depth = UINT_MAX
                                \/ last_call.depth = 0 /\ ~last_call.created)
    /\ last_call.op = "exit" =>
          /\ last_call.stopped <=> last_call.depth = 1
          /\ ~last_call.created
          /\ last_call.after =
                (IF last_call.depth = 0 THEN 0 ELSE last_call.depth - 1)

\* a nested __exit__ has returned and left the thread running
C7_Witness ==
    /\ ExitedFrom(2)
    /\ ~last_call.stopped
    /\ entry_count = 1
    /\ \E t \in Threads : Alive(t)

(***************************************************************************)
(* Properties of the context's deallocation (SpecLifetime)                 *)
(***************************************************************************)
\* OSE_destroy has run
Destroyed == opc = "destroyed"

\* what holds of a destroyed context: no signal thread exists, the stop
\* mutex was not held and the flag not set when they were destroyed, and a
\* context that was armed had its thread stopped and joined first
DestroyedAfterJoin ==
    /\ ~late_kill
    /\ Destroyed =>
          /\ last_call.op = "dealloc"
          /\ NoWorker
          /\ entry_count = 0 /\ ~mutex.held /\ ~signaled
          /\ last_call.depth >= 1 => (last_call.tried /\ last_call.stopped)
          /\ last_call.depth = 0 => ~last_call.tried

\* no step of a signal thread follows the destruction: the mutex, the flag
\* and the threads stay as they are
NoStepOnDestroyed ==
    Destroyed =>
        (thr' = thr /\ mutex' = mutex /\ signaled' = signaled /\ sent' = sent)

\* C17: deallocating a context that is armed (depth >= 1) first requests the
\* signal thread to stop and joins it, and only then destroys the stop
\* event's condition variable and mutex; no signal thread exists after the
\* destruction, so none touches the stop event or sends a signal after it.
C17_JoinBeforeDestroy ==
    []DestroyedAfterJoin /\ [][NoStepOnDestroyed]_vars

\* a context deallocated at depth 2 whose signal thread had sent a signal and
\* was blocked in its timed wait when the stop was requested
C17_Witness ==
    /\ Destroyed /\ last_call.op = "dealloc" /\ last_call.depth = 2
    /\ last_call.stopped /\ req_pc = "blocked" /\ sent

(***************************************************************************)
(* Properties of failures in the context's methods                         *)
(***************************************************************************)
\* C18: when pthread_create fails in an __enter__ made at depth 0 the call
\* raises, the depth stays 0 and no signal thread exists; every __enter__
\* made at depth 0, one that follows a failure included, calls pthread_create
\* again, and an __exit__ made at depth 0 does not call stop_signal_thread,
\* so it joins nothing.
C18_CreateFailureLeavesIdle ==
    /\ (opc = "idle" /\ FailedCreate(last_call)) =>
          /\ ~last_call.ok
          /\ last_call.depth = 0 /\ last_call.after = 0 /\ entry_count = 0
          /\ NoWorker /\ ~signaled /\ ~mutex.held
    /\ last_call.op = "enter" =>
          /\ last_call.tried <=> last_call.depth = 0
          /\ last_call.prev_failed => last_call.tried
    /\ (last_call.op = "exit" /\ last_call.depth = 0) =>
          /\ ~last_call.tried /\ ~last_call.stopped
          /\ last_call.ok /\ last_call.after = 0
    /\ (last_call.op = "exit" /\ last_call.prev_failed) =>
          last_call.depth = 0

\* an __enter__ whose pthread_create failed was followed by an __enter__ that
\* created the signal thread
C18_Witness ==
    /\ opc = "idle" /\ last_call.op = "enter" /\ last_call.prev_failed
    /\ last_call.created /\ entry_count = 1

\* C19: every failure of the operating system inside a method (pthread_create
\* failing in __enter__, pthread_join failing in __exit__) makes that method
\* raise: no call in which one occurred returns normally.
C19_FailuresReported ==
    /\ FailedCreate(last_call) => ~last_call.ok
    /\ last_call.join_err => ~last_call.ok

\* the part of C19 that the code does: a failed pthread_create is reported
C19_CreateFailureReported ==
    FailedCreate(last_call) => ~last_call.ok

\* an __exit__ at depth 1 whose pthread_join failed has returned None: the
\* depth is 0 and the signal thread is still there
C19_Witness ==
    /\ opc = "idle" /\ last_call.op = "exit" /\ last_call.depth = 1
    /\ last_call.join_err /\ last_call.ok
    /\ entry_count = 0 /\ ~NoWorker

(***************************************************************************)
(* Properties of the context's initialisation (SpecInit)                   *)
(***************************************************************************)
\* the interval argument is finite, positive and at least one nanosecond
AtLeastOneNs(x) ==
    x.kind = "huge" \/ (x.kind = "num" /\ x.h > 0 /\ x.h >= UnitsPerNs)

\* the timespec holding the whole seconds and whole nanoseconds of x
Truncated(x) ==
    CHOOSE ts \in [tv_sec : 0 .. MaxIntervalSec + 1, tv_nsec : 0 .. NS_PER_S - 1] :
        /\ (ts.tv_sec * NS_PER_S + ts.tv_nsec) * UnitsPerNs <= x.h
        /\ x.h < (ts.tv_sec * NS_PER_S + ts.tv_nsec + 1) * UnitsPerNs

\* C20: a call of __init__ on a context that is not configured succeeds
\* exactly when the signal is one sigaction accepts and the interval is
\* finite, positive and at least one nanosecond (the arguments being of the
\* right types); a call that fails leaves the stored signal and interval as
\* they were, which is 0 and 0 for a context never configured; a call on a
\* configured context fails and changes nothing; a call that succeeds stores
\* the signal and the interval's whole seconds and nanoseconds.
C20_InitValidates ==
    /\ signal = 0 => interval = ZeroTs
    /\ last_init.called =>
          /\ last_init.was_signal = 0 =>
                (last_init.rv = 0 <=> /\ last_init.parsed
                                      /\ last_init.sig \in 1 .. MaxSignal
                                      /\ AtLeastOneNs(last_init.ival))
          /\ last_init.was_signal # 0 => last_init.rv # 0
          /\ last_init.rv # 0 =>
                /\ signal = last_init.was_signal
                /\ interval = last_init.was_interval
                /\ last_init.was_signal = 0 =>
                      (signal = 0 /\ interval = ZeroTs)
          /\ last_init.rv = 0 =>
                /\ signal = last_init.sig /\ signal # 0
                /\ last_init.ival.kind = "num" =>
                      /\ interval = Truncated(last_init.ival)
                      /\ interval # ZeroTs

\* a configured context refused a second __init__ whose arguments were valid
\* and differed from what it holds
C20_Witness ==
    /\ last_init.called /\ last_init.was_signal # 0 /\ last_init.rv # 0
    /\ last_init.parsed /\ last_init.sig \in 1 .. MaxSignal
    /\ AtLeastOneNs(last_init.ival) /\ last_init.ival.kind = "num"
    /\ last_init.sig # signal /\ Truncated(last_init.ival) # interval

(***************************************************************************)
(* Properties of the signal thread's loop (SpecSignaler)                   *)
(***************************************************************************)
\* C22: in no interleaving is a signal thread about to call kill() while the
\* stop flag is set: OSE_wait returns false, and the signal is sent, only in
\* iterations in which no stop request had arrived when the wait ended.
C22_NoKillOnceStopRequested ==
    \A t \in Threads : thr[t].pc = "kill" => ~signaled

\* the signal thread's timed wait expired while it was blocked, the owner set
\* the flag before the thread had the mutex back, and the thread is about to
\* call kill() while the owner waits in pthread_join
C22_Witness ==
    \E t \in Threads :
        /\ thr[t].pc = "kill" /\ thr[t].err = "ETIMEDOUT"
        /\ signaled /\ opc = "join" /\ signal_thread = t
        /\ req_pc = "relock"

\* a timespec in nanoseconds
NsOf(ts) == ts.tv_sec * NS_PER_S + ts.tv_nsec

\* the pcs of a thread inside OSE_wait's loop
InWait == {"test", "blocked", "relock"}

\* what holds of a thread that has left OSE_wait: as timed out, only on
\* ETIMEDOUT with the clock at or past the deadline, a full interval after
\* the wait began; as signaled, or from the thread procedure, only with the
\* stop flag set or after a kill that failed
WaitOutcomes ==
    \A t \in Threads :
        /\ thr[t].pc = "kill" =>
              /\ thr[t].err = "ETIMEDOUT"
              /\ now_rt >= NsOf(thr[t].stop_waiting_at)
              /\ now_rt >= thr[t].began + NsOf(interval)
        /\ thr[t].pc \in {"unlock", "exited"} =>
              (signaled \/ thr[t].kill_failed)

\* no wakeup moves the deadline of the wait in progress
DeadlineFixed ==
    \A t \in Threads :
        (thr[t].pc \in InWait /\ thr'[t].pc \in InWait \cup {"kill", "unlock"})
            => /\ thr'[t].stop_waiting_at = thr[t].stop_waiting_at
               /\ thr'[t].began = thr[t].began

\* C23: however many spurious wakeups occur, OSE_wait returns 'signaled' only
\* with the stop flag set and 'timed out' only once the deadline fixed at the
\* start of that wait is reached, so a signal thread never sends its signal
\* earlier than one full interval after the wait began and never leaves its
\* loop without a stop request or a failed kill.
C23_SpuriousWakeupsHarmless ==
    []WaitOutcomes /\ [][DeadlineFixed]_vars

\* a signal thread that has already sent a signal was woken for no reason
\* before its deadline, with the stop flag clear
C23_Witness ==
    \E t \in Threads :
        /\ thr[t].pc = "relock" /\ thr[t].err = "ok" /\ ~thr[t].woken
        /\ ~signaled /\ sent
        /\ now_rt < NsOf(thr[t].stop_waiting_at)



(***************************************************************************)
(* Properties of OSE_wait's deadline (SpecDeadline)                        *)
(***************************************************************************)
\* a timespec in signaler.c's nanoseconds
WaitNs(ts) == ts.tv_sec * NS_PER_S + ts.tv_nsec

DeadlineIsSum ==
    /\ WaitNs(d_res) = WaitNs(d_now) + WaitNs(d_delay)
    /\ d_res.tv_nsec >= 0 /\ d_res.tv_nsec < NS_PER_S

\* C28: the deadline OSE_wait computes is the clock reading at the start of
\* the wait plus the whole delay in nanoseconds, with tv_nsec carried into
\* tv_sec so that it lies in [0, 10^9), for every reading and every delay
\* whose tv_nsec fields are in that range.
C28_DeadlineIsSum ==
    d_done => DeadlineIsSum

\* where the tv_sec additions stay within time_t the deadline is that sum
C28_SumWithoutOverflow ==
    (d_done /\ DeadlineDefined(d_now, d_delay)) => DeadlineIsSum

\* a delay of the largest time_t seconds added to a reading of one second
\* wrapped to a deadline before the epoch
C28_Witness ==
    /\ d_done /\ d_delay.tv_sec = Int64Max /\ d_now.tv_sec = 1
    /\ d_res.tv_sec = Int64Min /\ d_res.tv_nsec = 0
    /\ d_now.tv_nsec = 0 /\ d_delay.tv_nsec = 0

(***************************************************************************)
(* Properties of re-arming (SpecSignaler)                                  *)
(***************************************************************************)
\* the flag is set only inside stop_signal_thread, from OSE_signal on
StopFlagOnlyWhileStopping ==
    signaled => opc \in {"signal_unlock", "join", "reset_lock", "reset_clear"}

\* the flag goes back to false only in OSE_reset, after pthread_join has
\* waited for the thread: no signal thread exists any more
ClearedAfterJoin ==
    (signaled /\ ~signaled') =>
        /\ opc = "reset_clear" /\ reaped
        /\ \A t \in Threads : ~Exists(t)

\* pthread_create finds the flag false
CreatedUnstopped ==
    \A t \in Threads :
        (~Exists(t) /\ thr'[t].pc = "start") => (~signaled /\ ~signaled')

\* a thread leaves its loop through a set flag only while a
\* stop_signal_thread that began after its creation is waiting for it
StoppedOnlyOnRequest ==
    \A t \in Threads :
        (thr[t].pc = "test" /\ thr'[t].pc = "unlock") =>
            /\ opc \in {"signal_unlock", "join"}
            /\ t = signal_thread /\ entry_count = 1

\* C29: the stop flag is cleared only after the signal thread has been
\* joined and is false whenever a thread is created, so the thread of a
\* context that is armed again is not stopped by an old request; it is
\* stopped only by the stop_signal_thread of its own disarming.
C29_NoStaleStop ==
    /\ []StopFlagOnlyWhileStopping
    /\ [][ClearedAfterJoin /\ CreatedUnstopped /\ StoppedOnlyOnRequest]_vars

\* after an earlier thread was stopped and joined, the thread of the second
\* arming has sent its signal and is waiting again
C29_Witness ==
    /\ last_call.op = "enter" /\ last_call.created /\ last_call.workers = 2
    /\ entry_count = 1 /\ ~signaled /\ sent
    /\ thr[signal_thread].pc = "blocked"

(***************************************************************************)
(* Properties of a failed kill() (SpecSignalerFair)                        *)
(***************************************************************************)
\* a thread whose kill failed is on its way out or gone
FailedKillLeavesLoop ==
    \A t \in Threads :
        (Exists(t) /\ thr[t].kill_failed) => thr[t].pc \in {"unlock", "exited"}

\* the failing kill and the unlock after it leave entry_count alone; the
\* unlock frees the mutex
FailedKillKeepsDepth ==
    \A t \in Threads :
        /\ (thr[t].pc = "kill" /\ thr'[t].pc = "unlock") =>
              /\ thr'[t].kill_failed /\ mutex' = HeldBy(t)
              /\ entry_count' = entry_count /\ sent' = sent
        /\ (thr[t].kill_failed /\ thr[t].pc = "unlock" /\ thr'[t] # thr[t]) =>
              /\ thr'[t].pc = "exited" /\ mutex' = MutexFree
              /\ entry_count' = entry_count

\* the __exit__ at depth 1 that finds such a thread: the flag is set when
\* pthread_join returns, the join takes the exited thread, and the call
\* returns with the flag cleared and the depth at 0
DisarmAfterFailedKill ==
    thr[signal_thread].kill_failed =>
        /\ (opc = "join" /\ opc' = "reset_lock") =>
              /\ signaled /\ thr[signal_thread].pc = "exited"
              /\ ~Exists(signal_thread)' /\ reaped'
        /\ (opc = "dec" /\ caller = "exit" /\ opc' = "idle") =>
              /\ ~signaled /\ entry_count = 1 /\ entry_count' = 0
              /\ last_call'.stopped
              /\ \A t \in Threads : ~Exists(t)

\* the __enter__ at depth 0 that follows calls pthread_create, and the
\* thread it gets starts from the beginning with the flag false
RearmAfterFailedKill ==
    (/\ thr[signal_thread].kill_failed /\ opc = "idle" /\ entry_count = 0
     /\ last_call' # last_call /\ last_call'.op = "enter") =>
        /\ last_call'.tried
        /\ last_call'.created =>
              /\ thr'[signal_thread'] = NewThread
              /\ ~signaled' /\ entry_count' = 1

\* C30: when kill() fails the signal thread leaves its loop and unlocks the
\* stop mutex, and entry_count keeps its value; an __exit__ at depth 1 that
\* comes later sets the flag, joins the exited thread, clears the flag and
\* returns with the depth at 0, and does so eventually; the next __enter__
\* at depth 0 creates a new thread.
C30_FailedKillRecovers ==
    /\ []FailedKillLeavesLoop
    /\ [][FailedKillKeepsDepth /\ DisarmAfterFailedKill
            /\ RearmAfterFailedKill]_vars
    /\ (opc = "signal_lock" /\ caller = "exit"
          /\ thr[signal_thread].kill_failed)
         ~> (opc = "idle" /\ entry_count = 0 /\ ~signaled
              /\ \A t \in Threads : ~Exists(t))

\* an __exit__ at depth 1 that found the thread already exited after a failed
\* kill has returned: depth 0, flag clear, no thread left
C30_Witness ==
    /\ opc = "idle" /\ last_call.op = "exit" /\ last_call.depth = 1
    /\ last_call.stopped /\ req_pc = "exited"
    /\ thr[signal_thread].kill_failed /\ ~Exists(signal_thread)
    /\ entry_count = 0 /\ ~signaled /\ mutex = MutexFree

=============================================================================
